---- MODULE Spec2Model ----
(***************************************************************************)
(* A model of the agent-driving scripts autonomous_poster.py,              *)
(* reply_to_post.py, autonomous_research.py and invoke_gauge.py.           *)
(*                                                                         *)
(* Under Spec one behaviour is one run of one script (one process): Init  *)
(* is the state at process start, with the files the run finds on disk    *)
(* drawn from bounded sets; the run ends in pc = "returned" or            *)
(* pc = "raised".  Under SpecQueue one behaviour is a sequence of runs of *)
(* autonomous_research.py's commands on a fresh deployment, under         *)
(* SpecCycles a series of research cycles, under SpecRace one research    *)
(* cycle with add-topic running beside it in a second process.            *)
(*                                                                         *)
(* Text is a sequence of one-character strings, so that strip() and       *)
(* concatenation are computed and not assumed.  An optional value         *)
(* (Python's None) is a sequence of length 0 or 1: None == << >>,         *)
(* Some(x) == << x >>.                                                     *)
(***************************************************************************)
EXTENDS Integers, Sequences, FiniteSets, TLC

\* The longest event stream an agent invocation delivers.
MaxStream == 3

\* The most commands run one after the other on one deployment.
MaxRuns == 2

\* The most research cycles run one after the other with no other command
\* between them.
MaxCycles == 3

VARIABLES
  flow,          \* what this process runs: "post", "reply", "invoke", or
                 \* autonomous_research.py's "research", "add", "list"
  pc,            \* the position of the run inside the script
  stream,        \* the chunks the message stream of this run delivers, in order
  pos,           \* how many chunks the for loop has taken from the stream
  dry_run,       \* generate_autonomous_post's dry_run argument
  all_messages,  \* all_messages: the assistant chunks collected so far
  tool_calls,    \* tool_calls: the tool-call chunks collected so far
  reasoning,     \* invoke_agent's reasoning: the reasoning chunks collected
  posted,        \* posted
  post_content,  \* post_content (optional text)
  result,        \* the dictionary the flow returns (optional)
  error,         \* the kind of the exception that left the flow ("" for none)
  postLog,       \* autonomous_posts.log, one entry per line
  researchLog,   \* research.log, one entry per line
  topicsFile,    \* research_topics.json: its JSON text, None when it is absent
  topics,        \* run_research_cycle's topics (the loaded document, optional)
  sel,           \* the index in topics.active of the topic picked (0: none yet)
  counts,        \* conduct_research's search_count, archival_count, blog_created
  url,           \* reply_to_post's post_url, split at "/"
  netCalls,      \* the network calls the reply flow has issued, in order
  post_data,     \* fetch_post's dictionary (optional)
  reply_text,    \* reply_text
  created,       \* the records submitted with create_record, in order
  disk0,         \* history: the files as the run found them
  args,          \* add_topic's arguments title, description, priority
  runs,          \* how many commands have been started on this deployment
  seeds,         \* history: how often load_topics has written the default file
  adder,         \* a second process that runs add-topic on the same queue file
  cycles         \* history: the research cycles that have saved, in order

streamVars == <<stream, pos, all_messages, tool_calls, reasoning>>
postVars == <<dry_run, posted, post_content>>
researchVars == <<topics, sel, counts>>
replyVars == <<url, netCalls, post_data, reply_text, created>>
diskVars == <<postLog, researchLog, topicsFile>>
runVars == <<args, runs, seeds, adder, cycles>>
vars == <<flow, pc, result, error, streamVars, postVars, researchVars,
          replyVars, diskVars, disk0, runVars>>

(***************************************************************************)
(* Text                                                                    *)
(***************************************************************************)
None == << >>
Some(x) == << x >>

\* The whitespace characters of the model's texts.
IsSpace(c) == c \in {" ", "\n", "\t"}

\* str.strip(): the text without its leading and trailing whitespace.
RECURSIVE LStrip(_)
LStrip(s) == IF s # << >> /\ IsSpace(Head(s)) THEN LStrip(Tail(s)) ELSE s

RECURSIVE RStrip(_)
RStrip(s) ==
  IF s # << >> /\ IsSpace(s[Len(s)]) THEN RStrip(SubSeq(s, 1, Len(s) - 1))
  ELSE s

Strip(s) == RStrip(LStrip(s))

\* Python's truth value of an optional text: None and "" are false.
Truthy(opt) == opt # None /\ opt[1] # << >>

(***************************************************************************)
(* The chunks of a message stream                                          *)
(***************************************************************************)
PublishTool == "create_new_bluesky_post"

\* The texts an assistant chunk carries in the model.
Texts == { <<"a">>, <<" ", "b">>, <<" ">> }

\* A chunk: mt is its message_type ("" when it has none), name the name of
\* its tool call, text the 'text' entry of the tool call's JSON arguments
\* (None when the key is absent, else the list of texts), attr the attribute
\* that carries what an assistant chunk says ("content" or "text"), content
\* what it says.
Chunk(mt, name, text, attr, content) ==
  [mt |-> mt, name |-> name, text |-> text, attr |-> attr, content |-> content]

AssistantChunks ==
  { Chunk("assistant_message", "", None, "content", t) : t \in Texts }

\* An assistant chunk that has a text attribute and no content attribute.
TextAttrChunk == Chunk("assistant_message", "", None, "text", <<"a">>)

\* The 'text' argument of a publish call: absent, an empty list, or a list
\* whose first text is empty, "a" or "b".
TextArgs ==
  { None, Some(<< >>), Some(<< << >> >>), Some(<< <<"a">> >>),
    Some(<< <<"b">> >>) }

PublishChunks ==
  { Chunk("tool_call_message", PublishTool, a, "", << >>) : a \in TextArgs }

OtherToolChunk ==
  Chunk("tool_call_message", "archival_memory_search", None, "", << >>)

\* A reasoning chunk, a chunk of a kind no script knows, and one with no
\* message_type at all.
ReasoningChunk == Chunk("reasoning_message", "", None, "", << >>)
UnknownChunk == Chunk("usage_statistics", "", None, "", << >>)
BareChunk == Chunk("", "", None, "", << >>)

\* The chunk whose str() is 'done'.
DoneChunk == Chunk("done", "", None, "", << >>)

\* Not a chunk: the iterator raises here (a transport fault).
Fault == Chunk("fault", "", None, "", << >>)

PostChunks ==
  AssistantChunks \cup PublishChunks \cup
  { TextAttrChunk, OtherToolChunk, UnknownChunk, BareChunk, DoneChunk }

\* The streams of at most MaxStream chunks over a set of chunks; a fault, if
\* any, is the last thing a stream delivers.
SeqsUpTo(S, n) == UNION { [1..k -> S] : k \in 0..n }

Streams(S) ==
  SeqsUpTo(S, MaxStream) \cup
  { Append(s, Fault) : s \in SeqsUpTo(S, MaxStream - 1) }

IsDone(chunk) == chunk.mt = "done"

\* An exception of the given kind leaves the flow.
Raise(kind) == error' = kind /\ pc' = "raised"

(***************************************************************************)
(* autonomous_poster.py                                                    *)
(***************************************************************************)
\* log_post_attempt: one more line in autonomous_posts.log.
LogEntry(success, content, err) ==
  [success |-> success, content |-> content, error |-> err]

\* A faulty variant of log_post_attempt: the file is opened with 'w', not 'a'.
log_post_attempt_truncating(success, content, err) ==
  postLog' = << LogEntry(success, content, err) >>

log_post_attempt(success, content, err) ==
  postLog' = Append(postLog, LogEntry(success, content, err))

\* chunk.message_type == 'tool_call_message' and
\* chunk.tool_call.name == 'create_new_bluesky_post'
IsPublishCall(chunk) ==
  chunk.mt = "tool_call_message" /\ chunk.name = PublishTool

\* args.get('text', [None])[0] fails on an empty list.
ArgsFail(chunk) == chunk.text # None /\ chunk.text[1] = << >>

ArgsFirstText(chunk) ==
  IF chunk.text = None THEN None ELSE Some(chunk.text[1][1])

\* A faulty variant of response_text: the texts end to end, with no space after each.
RECURSIVE response_text_unseparated(_)
response_text_unseparated(msgs) ==
  IF msgs = << >> THEN << >>
  ELSE Head(msgs).content \o response_text_unseparated(Tail(msgs))

\* Lines 148-155: the text of the assistant chunks (msg.content, or msg.text
\* when there is no content), each followed by one space.
RECURSIVE response_text(_)
response_text(msgs) ==
  IF msgs = << >> THEN << >>
  ELSE Head(msgs).content \o <<" ">> \o response_text(Tail(msgs))

\* 'content': post_content or response_text.strip()
PostContent(pcontent, msgs) ==
  IF Truthy(pcontent) THEN pcontent[1] ELSE Strip(response_text(msgs))

\* A faulty variant of PostResult: success is reported whatever happened.
PostResultAlwaysSuccess(isPosted, dry, pcontent, msgs, ncalls) ==
  [success |-> TRUE,
   posted |-> isPosted,
   content |-> IF Truthy(pcontent) THEN pcontent[1]
               ELSE Strip(response_text(msgs)),
   response |-> Strip(response_text(msgs)),
   tool_calls |-> ncalls]

PostResult(isPosted, dry, pcontent, msgs, ncalls) ==
  [success |-> isPosted \/ dry,
   posted |-> isPosted,
   content |-> PostContent(pcontent, msgs),
   response |-> Strip(response_text(msgs)),
   tool_calls |-> ncalls]

\* client.agents.messages.create(...): the stream of this run is fixed.
PostInvoke ==
  /\ flow = "post" /\ pc = "start"
  /\ \E s \in Streams(PostChunks) : stream' = s
  /\ pc' = "loop"
  /\ UNCHANGED <<flow, result, error, pos, all_messages, tool_calls, reasoning,
                 postVars,
                 researchVars, replyVars, diskVars, disk0, runVars>>

\* A faulty variant of PostChunk: every chunk that is not a tool call is
\* collected as an assistant message.
PostChunkCollectingAny ==
  /\ flow = "post" /\ pc = "loop" /\ pos < Len(stream)
  /\ LET chunk == stream[pos + 1]
         isTool == chunk.mt = "tool_call_message"
         isPublish == IsPublishCall(chunk)
     IN /\ pos' = pos + 1
        /\ tool_calls' = IF isTool THEN Append(tool_calls, chunk) ELSE tool_calls
        /\ posted' = (posted \/ isPublish)
        /\ post_content' =
             IF isPublish /\ ~ArgsFail(chunk) THEN ArgsFirstText(chunk)
             ELSE post_content
        /\ all_messages' =
             IF ~isTool /\ chunk.mt \notin {"done", "fault"}
               THEN Append(all_messages, chunk)
             ELSE all_messages
        /\ pc' = IF chunk.mt = "fault" \/ (isPublish /\ ArgsFail(chunk))
                   THEN "except"
                 ELSE IF IsDone(chunk) THEN "after"
                 ELSE "loop"
  /\ UNCHANGED <<flow, result, error, stream, reasoning, dry_run, researchVars,
                 replyVars, diskVars, disk0, runVars>>

\* One turn of the for loop: the next chunk, or the iterator's fault.
PostChunk ==
  /\ flow = "post" /\ pc = "loop" /\ pos < Len(stream)
  /\ LET chunk == stream[pos + 1]
         isTool == chunk.mt = "tool_call_message"
         isPublish == IsPublishCall(chunk)
     IN /\ pos' = pos + 1
        /\ tool_calls' = IF isTool THEN Append(tool_calls, chunk) ELSE tool_calls
        /\ posted' = (posted \/ isPublish)
        /\ post_content' =
             IF isPublish /\ ~ArgsFail(chunk) THEN ArgsFirstText(chunk)
             ELSE post_content
        /\ all_messages' =
             IF chunk.mt = "assistant_message" THEN Append(all_messages, chunk)
             ELSE all_messages
        /\ pc' = IF chunk.mt = "fault" \/ (isPublish /\ ArgsFail(chunk))
                   THEN "except"
                 ELSE IF IsDone(chunk) THEN "after"
                 ELSE "loop"
  /\ UNCHANGED <<flow, result, error, stream, reasoning, dry_run, researchVars,
                 replyVars, diskVars, disk0, runVars>>

\* The stream is exhausted: the for loop ends.
PostStreamEnd ==
  /\ flow = "post" /\ pc = "loop" /\ pos = Len(stream)
  /\ pc' = "after"
  /\ UNCHANGED <<flow, result, error, streamVars, postVars, researchVars,
                 replyVars, diskVars, disk0, runVars>>

\* Lines 147-181: the result, the report (post_content[:100] fails on None),
\* the log entry, the return.
PostFinish ==
  /\ flow = "post" /\ pc = "after"
  /\ IF posted /\ post_content = None
       THEN /\ pc' = "except"
            /\ UNCHANGED <<result, postLog>>
       ELSE LET r == PostResult(posted, dry_run, post_content, all_messages,
                                Len(tool_calls))
            IN /\ log_post_attempt(r.success, Some(r.content), FALSE)
               /\ result' = Some(r)
               /\ pc' = "returned"
  /\ UNCHANGED <<flow, error, streamVars, postVars, researchVars, replyVars,
                 researchLog, topicsFile, disk0, runVars>>

\* A faulty variant of PostExcept: the failure is logged and what was
\* aggregated so far is returned.
PostExceptReturningPartial ==
  /\ flow = "post" /\ pc = "except"
  /\ log_post_attempt(FALSE, None, TRUE)
  /\ result' = Some(PostResult(posted, dry_run, Some(<< >>), all_messages,
                               Len(tool_calls)))
  /\ pc' = "returned"
  /\ UNCHANGED <<flow, error, streamVars, postVars, researchVars, replyVars,
                 researchLog, topicsFile, disk0, runVars>>

\* Lines 183-190: the except clause logs the failure and raises again.
PostExcept ==
  /\ flow = "post" /\ pc = "except"
  /\ log_post_attempt(FALSE, None, TRUE)
  /\ Raise("Exception")
  /\ UNCHANGED <<flow, result, streamVars, postVars, researchVars, replyVars,
                 researchLog, topicsFile, disk0, runVars>>

PostNext == PostInvoke \/ PostChunk \/ PostStreamEnd \/ PostFinish \/ PostExcept

\* The for loop of lines 123-145 on a stream given whole: what it has
\* collected when it ends (failed: an exception left the loop).
RECURSIVE PostCollect(_, _)
PostCollect(chunks, st) ==
  IF chunks = << >> THEN st
  ELSE LET chunk == Head(chunks)
           isPublish == IsPublishCall(chunk)
           next ==
             [posted |-> st.posted \/ isPublish,
              post_content |->
                IF isPublish /\ ~ArgsFail(chunk) THEN ArgsFirstText(chunk)
                ELSE st.post_content,
              all_messages |->
                IF chunk.mt = "assistant_message"
                  THEN Append(st.all_messages, chunk)
                ELSE st.all_messages,
              tool_calls |->
                IF chunk.mt = "tool_call_message"
                  THEN Append(st.tool_calls, chunk)
                ELSE st.tool_calls,
              failed |-> chunk.mt = "fault" \/ (isPublish /\ ArgsFail(chunk))]
       IN IF next.failed \/ IsDone(chunk) THEN next
          ELSE PostCollect(Tail(chunks), next)

\* generate_autonomous_post as a function of the stream the agent delivers:
\* the dictionary it returns, None when it raises.
generate_autonomous_post(chunks, dry) ==
  LET st == PostCollect(chunks, [posted |-> FALSE, post_content |-> None,
                                 all_messages |-> << >>, tool_calls |-> << >>,
                                 failed |-> FALSE])
  IN IF st.failed \/ (st.posted /\ st.post_content = None) THEN None
     ELSE Some(PostResult(st.posted, dry, st.post_content, st.all_messages,
                          Len(st.tool_calls)))

(***************************************************************************)
(* reply_to_post.py                                                        *)
(***************************************************************************)
\* A URL is modelled by its split at "/":
\* https://bsky.app/profile/alice.example/post/xyz123 is GoodUrl.
UrlHead == <<"https:", "", "bsky.app", "profile">>
GoodUrl == UrlHead \o <<"alice.example", "post", "xyz123">>

\* The URLs a run may be given.
Urls ==
  { GoodUrl,
    GoodUrl \o <<"extra">>,
    GoodUrl \o <<"">>,
    <<"http:", "", "bsky.app", "profile", "alice.example", "post", "xyz123">>,
    <<"https:", "", "example.com", "profile", "alice.example", "post", "xyz123">>,
    UrlHead \o <<"alice.example", "feed", "xyz123">>,
    UrlHead \o <<"", "post", "xyz123">>,
    UrlHead \o <<"alice.example", "post", "">>,
    UrlHead \o <<"alice.example", "post">>,
    UrlHead \o <<"alice.example">> }

\* A faulty variant of UrlMatches: the pattern accepts any scheme.
UrlMatchesAnyScheme(u) ==
  /\ Len(u) >= 7
  /\ SubSeq(u, 2, 4) = SubSeq(UrlHead, 2, 4)
  /\ u[5] # ""
  /\ u[6] = "post"
  /\ u[7] # ""

\* re.match(r'https://bsky\.app/profile/([^/]+)/post/([^/]+)', url): the
\* pattern is anchored at the start of the URL only.
UrlMatches(u) ==
  /\ Len(u) >= 7
  /\ SubSeq(u, 1, 4) = UrlHead
  /\ u[5] # ""
  /\ u[6] = "post"
  /\ u[7] # ""

\* parse_post_url's pair (handle, rkey) of a URL that matches.
parse_post_url(u) == <<u[5], u[7]>>

Dids == {"did:plc:alice"}
Cids == {"cid1", "cid2"}
DisplayNames == {None, Some("Alice")}
Collection == "app.bsky.feed.post"

\* One network call: the operation, what was asked, what came back (None
\* when the call failed).
Call(op, req, resp) == [op |-> op, req |-> req, resp |-> resp]

\* f"at://{response.did}/app.bsky.feed.post/{rkey}", as at:// followed by
\* these segments.
AtUri(did, rkey) == <<did, Collection, rkey>>

\* fetch_post: parts = post_uri.replace('at://', '').split('/')
UriParts(uri) == <<uri[1], uri[2], uri[3]>>

Ref(uri, cid) == [uri |-> uri, cid |-> cid]

\* A faulty variant of ReplyRecord: the parent does not carry the fetched cid.
ReplyRecordStaleParent(text, pdata) ==
  [text |-> text,
   root |-> Ref(pdata.uri, pdata.cid),
   parent |-> Ref(pdata.uri, "cid1")]

\* The record of lines 131-139 (createdAt, the wall clock, is left out).
ReplyRecord(text, pdata) ==
  [text |-> text,
   root |-> Ref(pdata.uri, pdata.cid),
   parent |-> Ref(pdata.uri, pdata.cid)]

\* Lines 85-86: BskyClient(...), bsky.login(...).
ReplyLogin ==
  /\ flow = "reply" /\ pc = "start"
  /\ \E ok \in BOOLEAN :
       /\ netCalls' = Append(netCalls,
                             Call("login", << >>, IF ok THEN Some("ok") ELSE None))
       /\ IF ok THEN pc' = "resolve" /\ UNCHANGED error
          ELSE Raise("NetworkError")
  /\ UNCHANGED <<flow, result, streamVars, postVars, researchVars, url,
                 post_data, reply_text, created, diskVars, disk0, runVars>>

\* Lines 90-91: parse_post_url, then get_post_uri's resolve_handle.
ReplyResolve ==
  /\ flow = "reply" /\ pc = "resolve"
  /\ IF ~UrlMatches(url)
       THEN /\ Raise("ValueError: Invalid Bluesky post URL")
            /\ UNCHANGED <<netCalls, post_data>>
       ELSE LET handle == parse_post_url(url)[1]
                rkey == parse_post_url(url)[2]
            IN \/ \E did \in Dids :
                    /\ netCalls' = Append(netCalls,
                         Call("resolve_handle", <<handle>>, Some(did)))
                    /\ post_data' = Some([uri |-> AtUri(did, rkey)])
                    /\ pc' = "get_record"
                    /\ UNCHANGED error
               \/ /\ netCalls' = Append(netCalls,
                       Call("resolve_handle", <<handle>>, None))
                  /\ Raise("NetworkError")
                  /\ UNCHANGED post_data
  /\ UNCHANGED <<flow, result, streamVars, postVars, researchVars, url,
                 reply_text, created, diskVars, disk0, runVars>>

\* Lines 48-55: fetch_post's get_record.
ReplyGetRecord ==
  /\ flow = "reply" /\ pc = "get_record"
  /\ LET parts == UriParts(post_data[1].uri)
     IN \/ \E cid \in Cids :
             /\ netCalls' = Append(netCalls, Call("get_record", parts, Some(cid)))
             /\ post_data' = Some([uri |-> post_data[1].uri, cid |-> cid])
             /\ pc' = "get_profile"
             /\ UNCHANGED error
        \/ /\ netCalls' = Append(netCalls, Call("get_record", parts, None))
           /\ Raise("NetworkError")
           /\ UNCHANGED post_data
  /\ UNCHANGED <<flow, result, streamVars, postVars, researchVars, url,
                 reply_text, created, diskVars, disk0, runVars>>

\* Lines 57-65: fetch_post's get_profile and the dictionary it returns.
ReplyGetProfile ==
  /\ flow = "reply" /\ pc = "get_profile"
  /\ LET repo == UriParts(post_data[1].uri)[1]
         handle == parse_post_url(url)[1]
     IN \/ \E name \in DisplayNames :
             /\ netCalls' = Append(netCalls,
                                   Call("get_profile", <<repo>>, Some(handle)))
             /\ post_data' = Some(
                  [uri |-> post_data[1].uri,
                   cid |-> post_data[1].cid,
                   author_handle |-> handle,
                   author_display_name |->
                     IF name # None THEN name[1] ELSE handle,
                   text |-> "hello"])
             /\ pc' = "invoke"
             /\ UNCHANGED error
        \/ /\ netCalls' = Append(netCalls, Call("get_profile", <<repo>>, None))
           /\ Raise("NetworkError")
           /\ UNCHANGED post_data
  /\ UNCHANGED <<flow, result, streamVars, postVars, researchVars, url,
                 reply_text, created, diskVars, disk0, runVars>>

ReplyChunks ==
  AssistantChunks \cup { TextAttrChunk, ReasoningChunk, DoneChunk }

\* Lines 110-115: letta.agents.messages.create(...).
ReplyInvoke ==
  /\ flow = "reply" /\ pc = "invoke"
  /\ \E s \in Streams(ReplyChunks) : stream' = s
  /\ netCalls' = Append(netCalls, Call("messages.create", << >>, Some("stream")))
  /\ pc' = "loop"
  /\ UNCHANGED <<flow, result, error, pos, all_messages, tool_calls, reasoning,
                 postVars,
                 researchVars, url, post_data, reply_text, created, diskVars,
                 disk0, runVars>>

\* Lines 119-122: one turn of the for loop; nothing ends it but the end of
\* the stream.
ReplyChunk ==
  /\ flow = "reply" /\ pc = "loop" /\ pos < Len(stream)
  /\ LET chunk == stream[pos + 1]
     IN /\ pos' = pos + 1
        /\ reply_text' =
             IF chunk.mt = "assistant_message" /\ chunk.attr = "content"
               THEN reply_text \o chunk.content
             ELSE reply_text
        /\ IF chunk.mt = "fault" THEN Raise("NetworkError")
           ELSE UNCHANGED <<pc, error>>
  /\ UNCHANGED <<flow, result, stream, all_messages, tool_calls, reasoning,
                 postVars,
                 researchVars, url, netCalls, post_data, created, diskVars,
                 disk0, runVars>>

\* A faulty variant of ReplyValidate: the emptiness check looks at the untrimmed text.
ReplyValidateUntrimmed ==
  /\ flow = "reply" /\ pc = "loop" /\ pos = Len(stream)
  /\ reply_text' = Strip(reply_text)
  /\ IF reply_text = << >>
       THEN Raise("ValueError: Agent did not generate reply")
       ELSE pc' = "publish" /\ UNCHANGED error
  /\ UNCHANGED <<flow, result, streamVars, postVars, researchVars, url,
                 netCalls, post_data, created, diskVars, disk0, runVars>>

\* Lines 124-126: reply_text.strip(), and the check that it is not empty.
ReplyValidate ==
  /\ flow = "reply" /\ pc = "loop" /\ pos = Len(stream)
  /\ reply_text' = Strip(reply_text)
  /\ IF Strip(reply_text) = << >>
       THEN Raise("ValueError: Agent did not generate reply")
       ELSE pc' = "publish" /\ UNCHANGED error
  /\ UNCHANGED <<flow, result, streamVars, postVars, researchVars, url,
                 netCalls, post_data, created, diskVars, disk0, runVars>>

\* A faulty variant of ReplyPublish: a failed create_record is tried once more.
ReplyPublishRetrying ==
  /\ flow = "reply" /\ pc = "publish"
  /\ created' = Append(created, ReplyRecord(reply_text, post_data[1]))
  /\ \/ /\ netCalls' = Append(netCalls,
                              Call("create_record", << >>, Some("at-uri")))
        /\ result' = Some([success |-> TRUE, reply_text |-> reply_text])
        /\ pc' = "returned"
        /\ UNCHANGED error
     \/ /\ netCalls' = Append(netCalls, Call("create_record", << >>, None))
        /\ IF created = << >> THEN UNCHANGED <<pc, error>>
           ELSE Raise("NetworkError")
        /\ UNCHANGED result
  /\ UNCHANGED <<flow, streamVars, postVars, researchVars, url, post_data,
                 reply_text, diskVars, disk0, runVars>>

\* Lines 131-154: the record, create_record, the returned dictionary.
ReplyPublish ==
  /\ flow = "reply" /\ pc = "publish"
  /\ created' = Append(created, ReplyRecord(reply_text, post_data[1]))
  /\ \/ /\ netCalls' = Append(netCalls,
                              Call("create_record", << >>, Some("at-uri")))
        /\ result' = Some([success |-> TRUE, reply_text |-> reply_text])
        /\ pc' = "returned"
        /\ UNCHANGED error
     \/ /\ netCalls' = Append(netCalls, Call("create_record", << >>, None))
        /\ Raise("NetworkError")
        /\ UNCHANGED result
  /\ UNCHANGED <<flow, streamVars, postVars, researchVars, url, post_data,
                 reply_text, diskVars, disk0, runVars>>

ReplyNext ==
  \/ ReplyLogin \/ ReplyResolve \/ ReplyGetRecord \/ ReplyGetProfile
  \/ ReplyInvoke \/ ReplyChunk \/ ReplyValidate \/ ReplyPublish

(***************************************************************************)
(* autonomous_research.py                                                  *)
(***************************************************************************)
\* A timestamp is the sequence of the numeric fields of its ISO text: the
\* fields are zero-padded to fixed widths, so Python's comparison of the texts
\* is the lexicographic comparison of the field sequences, a proper prefix
\* being smaller.  datetime.now().isoformat() has the fields year, month, day
\* and the time of day (here the hour); '1970-01-01' is a date without a time.
Epoch == <<1970, 1, 1>>
Old == <<1969, 12, 31, 23>>
Earlier == <<2024, 6, 1, 9>>
Later == <<2024, 6, 2, 9>>

\* What datetime.now().isoformat() may return during a run: a day that comes
\* later with every run on the deployment, or, when the clock was set back,
\* the first day of 2025.
Clock == { <<2025, 1, 1, 9>>, <<2025, 1, 1 + runs, 9>> }

\* a < b for two timestamp texts.
RECURSIVE StrLess(_, _)
StrLess(a, b) ==
  IF b = << >> THEN FALSE
  ELSE IF a = << >> THEN TRUE
  ELSE IF Head(a) # Head(b) THEN Head(a) < Head(b)
  ELSE StrLess(Tail(a), Tail(b))

Topic(id, title, description, priority, last) ==
  [id |-> id, title |-> title, description |-> description,
   priority |-> priority, last_researched |-> last]

Document(active, completed) == [active |-> active, completed |-> completed]

\* Lines 48-87.  An id and a title are texts (sequences of characters), as
\* add_topic computes the one from the other; a description and a priority
\* are passed on as they are and stay strings.
default_topics ==
  Document(
    << Topic(<<"a", "s", "i", "-", "a", "l", "i", "g", "n", "m", "e", "n",
               "t">>,
             <<"A", "S", "I", " ", "A", "l", "i", "g", "n", "m", "e", "n",
               "t", " ", "a", "n", "d", " ", "S", "a", "f", "e", "t", "y",
               " ", "R", "e", "s", "e", "a", "r", "c", "h">>,
             "Latest developments in AI safety, alignment, and superintelligence",
             "high", None),
       Topic(<<"v", "r", "-", "c", "o", "m", "p", "u", "t", "a", "t", "i",
               "o", "n">>,
             <<"V", "R", " ", "a", "n", "d", " ", "C", "o", "m", "p", "u",
               "t", "a", "t", "i", "o", "n", "a", "l", " ", "I", "n", "t",
               "e", "r", "f", "a", "c", "e", "s">>,
             "Virtual reality, spatial computing, and new interaction paradigms",
             "high", None),
       Topic(<<"m", "a", "t", "h", "-", "a", "i">>,
             <<"M", "a", "t", "h", "e", "m", "a", "t", "i", "c", "a", "l",
               " ", "F", "o", "u", "n", "d", "a", "t", "i", "o", "n", "s",
               " ", "o", "f", " ", "A", "I">>,
             "Theoretical underpinnings, information theory, optimization",
             "medium", None),
       Topic(<<"c", "y", "p", "h", "e", "r", "p", "u", "n", "k">>,
             <<"C", "y", "p", "h", "e", "r", "p", "u", "n", "k", " ", "a",
               "n", "d", " ", "D", "i", "g", "i", "t", "a", "l", " ", "A",
               "u", "t", "o", "n", "o", "m", "y">>,
             "Privacy, cryptography, digital freedom, decentralization",
             "medium", None),
       Topic(<<"d", "a", "t", "a", "-", "s", "c", "i", "e", "n", "c", "e",
               "-", "m", "e", "t", "h", "o", "d", "s">>,
             <<"A", "d", "v", "a", "n", "c", "e", "d", " ", "D", "a", "t",
               "a", " ", "S", "c", "i", "e", "n", "c", "e", " ", "M", "e",
               "t", "h", "o", "d", "s">>,
             "Novel techniques, probabilistic programming, causal inference",
             "low", None) >>,
    << >>)

\* A faulty variant of json_dump_topic: a missing last_researched is written
\* as the date '1970-01-01'.
json_dump_topic_stamping(t) ==
  << <<"{">>,
     <<"key", "id">>, <<"str", t.id>>,
     <<"key", "title">>, <<"str", t.title>>,
     <<"key", "description">>, <<"str", t.description>>,
     <<"key", "priority">>, <<"str", t.priority>>,
     <<"key", "last_researched">>,
     <<"str", IF t.last_researched = None THEN <<1970, 1, 1>>
              ELSE t.last_researched>>,
     <<"}">> >>

\* json.dump: the JSON text of the queue file is modelled by its tokens, the
\* brackets, <<"key", k>>, <<"str", s>> and <<"null">> (the commas, the colons
\* and the indentation are left out).  A dictionary is written in the order
\* of its keys, None as null, everything else the queue holds as a string.
json_dump_topic(t) ==
  << <<"{">>,
     <<"key", "id">>, <<"str", t.id>>,
     <<"key", "title">>, <<"str", t.title>>,
     <<"key", "description">>, <<"str", t.description>>,
     <<"key", "priority">>, <<"str", t.priority>>,
     <<"key", "last_researched">>,
     IF t.last_researched = None THEN <<"null">>
     ELSE <<"str", t.last_researched>>,
     <<"}">> >>

RECURSIVE json_dump_list(_)
json_dump_list(ts) ==
  IF ts = << >> THEN << >>
  ELSE json_dump_topic(Head(ts)) \o json_dump_list(Tail(ts))

json_dump(doc) ==
  << <<"{">>, <<"key", "active">>, <<"[">> >> \o json_dump_list(doc.active)
  \o << <<"]">>, <<"key", "completed">>, <<"[">> >>
  \o json_dump_list(doc.completed) \o << <<"]">>, <<"}">> >>

\* json.load: a recursive-descent parse of the tokens.  A parse gives the
\* value and the position after it, or fails.
ParseFail == [ok |-> FALSE, val |-> << >>, next |-> 0]
Parsed(v, n) == [ok |-> TRUE, val |-> v, next |-> n]

\* The dictionary of a list of <<key, value>> pairs: a key written twice
\* keeps its last value.
ObjectOf(pairs) ==
  [k \in { pairs[j][1] : j \in 1..Len(pairs) } |->
     pairs[CHOOSE j \in 1..Len(pairs) :
             /\ pairs[j][1] = k
             /\ \A l \in (j + 1)..Len(pairs) : pairs[l][1] # k][2]]

RECURSIVE ParseValue(_, _), ParseItems(_, _, _), ParseMembers(_, _, _)
ParseValue(text, i) ==
  IF i > Len(text) THEN ParseFail
  ELSE IF text[i][1] = "null" THEN Parsed(None, i + 1)
  ELSE IF text[i][1] = "str" THEN Parsed(text[i][2], i + 1)
  ELSE IF text[i][1] = "[" THEN ParseItems(text, i + 1, << >>)
  ELSE IF text[i][1] = "{" THEN ParseMembers(text, i + 1, << >>)
  ELSE ParseFail

ParseItems(text, i, items) ==
  IF i > Len(text) THEN ParseFail
  ELSE IF text[i][1] = "]" THEN Parsed(items, i + 1)
  ELSE LET item == ParseValue(text, i)
       IN IF item.ok THEN ParseItems(text, item.next, Append(items, item.val))
          ELSE ParseFail

ParseMembers(text, i, pairs) ==
  IF i > Len(text) THEN ParseFail
  ELSE IF text[i][1] = "}" THEN Parsed(ObjectOf(pairs), i + 1)
  ELSE IF text[i][1] # "key" THEN ParseFail
  ELSE LET member == ParseValue(text, i + 1)
       IN IF member.ok
            THEN ParseMembers(text, member.next,
                              Append(pairs, <<text[i][2], member.val>>))
          ELSE ParseFail

\* json.load's value, None when it raises JSONDecodeError.
json_load(text) ==
  LET whole == ParseValue(text, 1)
  IN IF whole.ok /\ whole.next = Len(text) + 1 THEN Some(whole.val) ELSE None

\* What open(topics_file, 'w') and json.dump leave in the file when the
\* write does not run to its end (the disk is full, the process is killed):
\* the empty file that open made, or the text cut short.
Interrupted(text) == { << >>, SubSeq(text, 1, Len(text) \div 2) }

\* A faulty variant of load_topics: the default topics are written without a
\* look at whether the file exists.
load_topics_reseeding(next) ==
  /\ pc = "start"
  /\ seeds' = seeds + 1
  /\ topicsFile' = Some(json_dump(default_topics))
  /\ topics' = Some(default_topics)
  /\ pc' = next
  /\ UNCHANGED error

\* load_topics, lines 42-96: when the file does not exist the default topics
\* are written and returned, else the file is read.  The flow goes on at next.
load_topics(next) ==
  /\ pc = "start"
  /\ IF topicsFile = None
       THEN /\ seeds' = seeds + 1
            /\ \/ /\ topicsFile' = Some(json_dump(default_topics))
                  /\ topics' = Some(default_topics)
                  /\ pc' = next
                  /\ UNCHANGED error
               \/ /\ \E cut \in Interrupted(json_dump(default_topics)) :
                       topicsFile' = Some(cut)
                  /\ Raise("OSError")
                  /\ UNCHANGED topics
       ELSE /\ UNCHANGED <<topicsFile, seeds>>
            /\ IF json_load(topicsFile[1]) = None
                 THEN Raise("JSONDecodeError") /\ UNCHANGED topics
                 ELSE /\ topics' = json_load(topicsFile[1])
                      /\ pc' = next
                      /\ UNCHANGED error

\* A faulty variant of save_topics: the document is not written.
save_topics_skipping(doc, next) ==
  /\ pc' = next
  /\ UNCHANGED <<topicsFile, error>>

\* save_topics, lines 99-103.
save_topics(doc, next) ==
  \/ /\ topicsFile' = Some(json_dump(doc))
     /\ pc' = next
     /\ UNCHANGED error
  \/ /\ \E cut \in Interrupted(json_dump(doc)) : topicsFile' = Some(cut)
     /\ Raise("OSError")

\* A faulty variant of priority_order: the ranks the wrong way round.
priority_order_reversed(p) ==
  IF p = "high" THEN 2 ELSE IF p = "medium" THEN 1 ELSE IF p = "low" THEN 0
  ELSE 3

\* priority_order.get(t['priority'], 3)
priority_order(p) ==
  IF p = "high" THEN 0 ELSE IF p = "medium" THEN 1 ELSE IF p = "low" THEN 2
  ELSE 3

\* t['last_researched'] or '1970-01-01'
StampKey(t) == IF t.last_researched = None THEN Epoch ELSE t.last_researched

\* A faulty variant of SortKey: the priority alone, without last_researched.
SortKeyPriorityOnly(t) == <<priority_order(t.priority), Epoch>>

\* The sort key of lines 283-286 and the order of its tuples.
SortKey(t) == <<priority_order(t.priority), StampKey(t)>>

KeyLess(k, l) == k[1] < l[1] \/ (k[1] = l[1] /\ StrLess(k[2], l[2]))

\* sorted(...)[0], as an index into active: sorted is stable, so the first
\* of the topics with the least key.
SortedFirst(active) ==
  CHOOSE i \in 1..Len(active) :
    /\ \A j \in 1..Len(active) : ~KeyLess(SortKey(active[j]), SortKey(active[i]))
    /\ \A j \in 1..(i - 1) : KeyLess(SortKey(active[i]), SortKey(active[j]))

\* log_research: one more line in research.log.
ResearchEntry(topic, success, findings, err) ==
  [topic |-> topic.title, topic_id |-> topic.id, success |-> success,
   findings_length |-> Len(findings), error |-> err]

log_research(topic, success, findings, err) ==
  researchLog' = Append(researchLog, ResearchEntry(topic, success, findings, err))

\* Lines 235-238: msg.text of the assistant chunks that have one, each
\* followed by a newline.
RECURSIVE findings_text(_)
findings_text(msgs) ==
  IF msgs = << >> THEN << >>
  ELSE (IF Head(msgs).attr = "text" THEN Head(msgs).content \o <<"\n">>
        ELSE << >>) \o findings_text(Tail(msgs))

FunctionCall(name) == Chunk("function_call_message", name, None, "", << >>)

ResearchChunks ==
  { FunctionCall("web_search"), FunctionCall("archival_memory_insert"),
    FunctionCall("create_whitewind_blog_post"),
    TextAttrChunk, Chunk("assistant_message", "", None, "content", <<"a">>),
    DoneChunk }

\* Line 273: topics = load_topics().
ResearchLoad ==
  /\ flow = "research"
  /\ load_topics("select")
  /\ UNCHANGED <<flow, result, streamVars, postVars, sel, counts, replyVars,
                 postLog, researchLog, disk0, args, runs, adder,
                 cycles>>

\* A faulty variant of ResearchSelect: topics['active'] is sorted in place.
ResearchSelectSortingInPlace ==
  /\ flow = "research" /\ pc = "select"
  /\ IF topics[1].active = << >>
       THEN pc' = "returned" /\ UNCHANGED <<sel, topics>>
       ELSE LET RECURSIVE Sorted(_)
                Sorted(active) ==
                  IF active = << >> THEN << >>
                  ELSE LET i == SortedFirst(active)
                       IN <<active[i]>> \o
                          Sorted(SubSeq(active, 1, i - 1) \o
                                 SubSeq(active, i + 1, Len(active)))
            IN /\ pc' = "invoke" /\ sel' = 1
               /\ topics' = Some([topics[1] EXCEPT !.active = Sorted(@)])
  /\ UNCHANGED <<flow, result, error, streamVars, postVars, counts,
                 replyVars, diskVars, disk0, runVars>>

\* Lines 275-290: nothing to do on an empty queue, else the first topic of the
\* sorted list.
ResearchSelect ==
  /\ flow = "research" /\ pc = "select"
  /\ IF topics[1].active = << >>
       THEN pc' = "returned" /\ UNCHANGED sel
       ELSE pc' = "invoke" /\ sel' = SortedFirst(topics[1].active)
  /\ UNCHANGED <<flow, result, error, streamVars, postVars, topics, counts,
                 replyVars, diskVars, disk0, runVars>>

\* Lines 201-207: client.agents.messages.create(...).
ResearchInvoke ==
  /\ flow = "research" /\ pc = "invoke"
  /\ \E s \in Streams(ResearchChunks) : stream' = s
  /\ pc' = "loop"
  /\ UNCHANGED <<flow, result, error, pos, all_messages, tool_calls, reasoning,
                 postVars,
                 researchVars, replyVars, diskVars, disk0, runVars>>

\* Lines 216-232: one turn of the for loop.
ResearchChunk ==
  /\ flow = "research" /\ pc = "loop" /\ pos < Len(stream)
  /\ LET chunk == stream[pos + 1]
         isCall == chunk.mt = "function_call_message"
     IN /\ pos' = pos + 1
        /\ tool_calls' = IF isCall THEN Append(tool_calls, chunk) ELSE tool_calls
        /\ counts' =
             IF isCall /\ chunk.name = "web_search"
               THEN [counts EXCEPT !.search_count = @ + 1]
             ELSE IF isCall /\ chunk.name = "archival_memory_insert"
               THEN [counts EXCEPT !.archival_count = @ + 1]
             ELSE IF isCall /\ chunk.name = "create_whitewind_blog_post"
               THEN [counts EXCEPT !.blog_created = TRUE]
             ELSE counts
        /\ all_messages' =
             IF chunk.mt = "assistant_message" THEN Append(all_messages, chunk)
             ELSE all_messages
        /\ pc' = IF chunk.mt = "fault" THEN "except"
                 ELSE IF IsDone(chunk) THEN "after"
                 ELSE "loop"
  /\ UNCHANGED <<flow, result, error, stream, reasoning, postVars, topics, sel,
                 replyVars, diskVars, disk0, runVars>>

ResearchStreamEnd ==
  /\ flow = "research" /\ pc = "loop" /\ pos = Len(stream)
  /\ pc' = "after"
  /\ UNCHANGED <<flow, result, error, streamVars, postVars, researchVars,
                 replyVars, diskVars, disk0, runVars>>

\* A faulty variant of ResearchFinish: the researched topic is stamped and moved
\* from active to completed.
ResearchFinishCompleting ==
  /\ flow = "research" /\ pc = "after"
  /\ \E now \in Clock :
       LET findings == findings_text(all_messages)
           marked == [topics[1].active[sel] EXCEPT !.last_researched = now]
       IN /\ result' = Some([success |-> TRUE,
                             findings |-> Strip(findings),
                             searches |-> counts.search_count,
                             archival_entries |-> counts.archival_count,
                             blog_created |-> counts.blog_created,
                             tool_calls |-> Len(tool_calls)])
          /\ topics' =
               Some([topics[1] EXCEPT
                       !.active = SelectSeq(@, LAMBDA t : t # topics[1].active[sel]),
                       !.completed = Append(@, marked)])
          /\ log_research(marked, TRUE, findings, FALSE)
  /\ pc' = "save"
  /\ UNCHANGED <<flow, error, streamVars, postVars, sel, counts, replyVars,
                 postLog, topicsFile, disk0, runVars>>

\* Lines 234-257: the result, the topic's new last_researched (the topic is
\* the very dictionary that topics['active'] holds), the log entry.
ResearchFinish ==
  /\ flow = "research" /\ pc = "after"
  /\ \E now \in Clock :
       LET findings == findings_text(all_messages)
           marked == [topics[1].active[sel] EXCEPT !.last_researched = now]
       IN /\ result' = Some([success |-> TRUE,
                             findings |-> Strip(findings),
                             searches |-> counts.search_count,
                             archival_entries |-> counts.archival_count,
                             blog_created |-> counts.blog_created,
                             tool_calls |-> Len(tool_calls)])
          /\ topics' = Some([topics[1] EXCEPT !.active[sel] = marked])
          /\ log_research(marked, TRUE, findings, FALSE)
  /\ pc' = "save"
  /\ UNCHANGED <<flow, error, streamVars, postVars, sel, counts, replyVars,
                 postLog, topicsFile, disk0, runVars>>

\* A faulty variant of ResearchExcept: the topic is stamped and the queue saved
\* on the failure path too.
ResearchExceptSaving ==
  /\ flow = "research" /\ pc = "except"
  /\ log_research(topics[1].active[sel], FALSE, << >>, TRUE)
  /\ \E now \in Clock :
       topicsFile' =
         Some(json_dump([topics[1] EXCEPT !.active[sel].last_researched = now]))
  /\ Raise("Exception")
  /\ UNCHANGED <<flow, result, streamVars, postVars, researchVars, replyVars,
                 postLog, disk0, runVars>>

\* Lines 259-262: the except clause logs the failure and raises again.
ResearchExcept ==
  /\ flow = "research" /\ pc = "except"
  /\ log_research(topics[1].active[sel], FALSE, << >>, TRUE)
  /\ Raise("Exception")
  /\ UNCHANGED <<flow, result, streamVars, postVars, researchVars, replyVars,
                 postLog, topicsFile, disk0, runVars>>

\* Line 296: save_topics(topics), and the report of lines 298-302.
ResearchSave ==
  /\ flow = "research" /\ pc = "save"
  /\ save_topics(topics[1], "returned")
  /\ cycles' =
       IF pc' = "returned"
         THEN Append(cycles, [pick |-> sel,
                              before |-> json_load(topicsFile[1])[1].active,
                              after |-> topics[1].active])
       ELSE cycles
  /\ UNCHANGED <<flow, result, streamVars, postVars, researchVars, replyVars,
                 postLog, researchLog, disk0, args, runs, seeds, adder>>

ResearchNext ==
  \/ ResearchLoad \/ ResearchSelect \/ ResearchInvoke \/ ResearchChunk
  \/ ResearchStreamEnd \/ ResearchFinish \/ ResearchExcept \/ ResearchSave

\* The for loop of lines 216-232 on a stream given whole.
RECURSIVE ResearchCollect(_, _)
ResearchCollect(chunks, st) ==
  IF chunks = << >> THEN st
  ELSE LET chunk == Head(chunks)
           isCall == chunk.mt = "function_call_message"
           next ==
             [search_count |->
                IF isCall /\ chunk.name = "web_search" THEN st.search_count + 1
                ELSE st.search_count,
              archival_count |->
                IF isCall /\ chunk.name = "archival_memory_insert"
                  THEN st.archival_count + 1
                ELSE st.archival_count,
              blog_created |->
                st.blog_created
                \/ (isCall /\ chunk.name = "create_whitewind_blog_post"),
              all_messages |->
                IF chunk.mt = "assistant_message"
                  THEN Append(st.all_messages, chunk)
                ELSE st.all_messages,
              tool_calls |->
                IF isCall THEN Append(st.tool_calls, chunk) ELSE st.tool_calls,
              failed |-> chunk.mt = "fault"]
       IN IF next.failed \/ IsDone(chunk) THEN next
          ELSE ResearchCollect(Tail(chunks), next)

\* conduct_research as a function of the stream the agent delivers: the
\* dictionary it returns, None when it raises.
conduct_research(chunks) ==
  LET st == ResearchCollect(chunks,
              [search_count |-> 0, archival_count |-> 0, blog_created |-> FALSE,
               all_messages |-> << >>, tool_calls |-> << >>, failed |-> FALSE])
  IN IF st.failed THEN None
     ELSE Some([success |-> TRUE,
                findings |-> Strip(findings_text(st.all_messages)),
                searches |-> st.search_count,
                archival_entries |-> st.archival_count,
                blog_created |-> st.blog_created,
                tool_calls |-> Len(st.tool_calls)])

\* str.lower() on the letters of the model's titles.
Uppers ==
  <<"A", "B", "C", "D", "E", "F", "G", "H", "I", "J", "K", "L", "M", "N", "O",
    "P", "Q", "R", "S", "T", "U", "V", "W", "X", "Y", "Z">>

Lowers ==
  <<"a", "b", "c", "d", "e", "f", "g", "h", "i", "j", "k", "l", "m", "n", "o",
    "p", "q", "r", "s", "t", "u", "v", "w", "x", "y", "z">>

LowerChar(c) ==
  IF \E i \in DOMAIN Uppers : Uppers[i] = c
    THEN Lowers[CHOOSE i \in DOMAIN Uppers : Uppers[i] = c]
  ELSE c

Lower(s) == [i \in 1..Len(s) |-> LowerChar(s[i])]

\* str.replace(old, new) for one-character old and new.
Replace(s, old, new) == [i \in 1..Len(s) |-> IF s[i] = old THEN new ELSE s[i]]

\* The slice s[:n].
Take(s, n) == SubSeq(s, 1, IF Len(s) < n THEN Len(s) ELSE n)

\* Line 111: title.lower().replace(' ', '-')[:50]
IdLimit == 50

topic_id(title) == Take(Replace(Lower(title), " ", "-"), IdLimit)

\* Lines 113-119.
new_topic(a) == Topic(topic_id(a.title), a.title, a.description, a.priority, None)

\* The arguments of a command that is not add-topic.
NoArgs == [title |-> << >>, description |-> "", priority |-> "medium"]

\* The second process: not started.
NoAdder == [pc |-> "none", args |-> NoArgs, topics |-> None,
            loadedAt |-> "", savedAt |-> ""]

\* Line 108: topics = load_topics().
AddLoad ==
  /\ flow = "add"
  /\ load_topics("append")
  /\ UNCHANGED <<flow, result, streamVars, postVars, sel, counts, replyVars,
                 postLog, researchLog, disk0, args, runs, adder,
                 cycles>>

\* A faulty variant of AddAppend: the new topic goes to the head of the list.
AddAppendAtFront ==
  /\ flow = "add" /\ pc = "append"
  /\ topics' = Some([topics[1] EXCEPT !.active = <<new_topic(args)>> \o @])
  /\ pc' = "save"
  /\ UNCHANGED <<flow, result, error, streamVars, postVars, sel, counts,
                 replyVars, diskVars, disk0, runVars>>

\* Lines 111-121: the new topic goes to the end of topics['active'].
AddAppend ==
  /\ flow = "add" /\ pc = "append"
  /\ topics' = Some([topics[1] EXCEPT !.active = Append(@, new_topic(args))])
  /\ pc' = "save"
  /\ UNCHANGED <<flow, result, error, streamVars, postVars, sel, counts,
                 replyVars, diskVars, disk0, runVars>>

\* Lines 122-125: save_topics(topics); the new topic is returned.
AddSave ==
  /\ flow = "add" /\ pc = "save"
  /\ save_topics(topics[1], "returned")
  /\ result' = IF pc' = "returned" THEN Some(new_topic(args)) ELSE result
  /\ UNCHANGED <<flow, streamVars, postVars, researchVars, replyVars, postLog,
                 researchLog, disk0, runVars>>

AddNext == AddLoad \/ AddAppend \/ AddSave

\* Line 130: topics = load_topics().
ListLoad ==
  /\ flow = "list"
  /\ load_topics("print")
  /\ UNCHANGED <<flow, result, streamVars, postVars, sel, counts, replyVars,
                 postLog, researchLog, disk0, args, runs, adder,
                 cycles>>

\* Lines 132-144: the topics are printed; nothing is written.
ListPrint ==
  /\ flow = "list" /\ pc = "print"
  /\ pc' = "returned"
  /\ UNCHANGED <<flow, result, error, streamVars, postVars, researchVars,
                 replyVars, diskVars, disk0, runVars>>

ListNext == ListLoad \/ ListPrint

\* add_topic in a second process, lines 108-121: it loads the queue file (and
\* seeds it when absent) and appends the new topic to its own copy.  loadedAt
\* and savedAt are history: where the first process stood at that moment.
AdderLoad ==
  /\ adder.pc = "start"
  /\ IF topicsFile = None
       THEN /\ seeds' = seeds + 1
            /\ topicsFile' = Some(json_dump(default_topics))
            /\ adder' = [adder EXCEPT
                 !.topics = Some([default_topics EXCEPT
                              !.active = Append(@, new_topic(adder.args))]),
                 !.pc = "save", !.loadedAt = pc]
       ELSE /\ UNCHANGED <<topicsFile, seeds>>
            /\ LET loaded == json_load(topicsFile[1])
               IN IF loaded = None
                    THEN adder' = [adder EXCEPT !.pc = "raised", !.loadedAt = pc]
                    ELSE adder' = [adder EXCEPT
                           !.topics = Some([loaded[1] EXCEPT
                                        !.active = Append(@, new_topic(adder.args))]),
                           !.pc = "save", !.loadedAt = pc]
  /\ UNCHANGED <<flow, pc, result, error, streamVars, postVars, researchVars,
                 replyVars, postLog, researchLog, disk0, args, runs, cycles>>

\* Lines 122-125 in the second process: save_topics(topics).
AdderSave ==
  /\ adder.pc = "save"
  /\ topicsFile' = Some(json_dump(adder.topics[1]))
  /\ adder' = [adder EXCEPT !.pc = "returned", !.savedAt = pc]
  /\ UNCHANGED <<flow, pc, result, error, streamVars, postVars, researchVars,
                 replyVars, postLog, researchLog, disk0, args, runs, seeds,
                 cycles>>

AdderNext == AdderLoad \/ AdderSave

(***************************************************************************)
(* invoke_gauge.py                                                         *)
(***************************************************************************)
FunctionReturnChunk == Chunk("function_return", "", None, "", << >>)

InvokeChunks ==
  { ReasoningChunk, FunctionCall("web_search"), FunctionReturnChunk,
    Chunk("assistant_message", "", None, "content", <<"a">>),
    UnknownChunk, BareChunk, DoneChunk }

\* Lines 61-67: the list a chunk is appended to.
InvokeCollected(st, chunk) ==
  [messages |->
     IF chunk.mt \in {"assistant_message", "function_return"}
       THEN Append(st.messages, chunk)
     ELSE st.messages,
   tool_calls |->
     IF chunk.mt = "function_call_message" THEN Append(st.tool_calls, chunk)
     ELSE st.tool_calls,
   reasoning |->
     IF chunk.mt = "reasoning_message" THEN Append(st.reasoning, chunk)
     ELSE st.reasoning]

\* invoke_agent as a function of the stream the agent delivers: the
\* dictionary it returns, None when it raises.
RECURSIVE InvokeCollect(_, _)
InvokeCollect(chunks, st) ==
  IF chunks = << >> THEN Some(st)
  ELSE IF Head(chunks).mt = "fault" THEN None
  ELSE IF IsDone(Head(chunks)) THEN Some(InvokeCollected(st, Head(chunks)))
  ELSE InvokeCollect(Tail(chunks), InvokeCollected(st, Head(chunks)))

invoke_agent(chunks) ==
  InvokeCollect(chunks,
                [messages |-> << >>, tool_calls |-> << >>, reasoning |-> << >>])

\* Lines 47-53: client.agents.messages.create(...).
InvokeInvoke ==
  /\ flow = "invoke" /\ pc = "start"
  /\ \E s \in Streams(InvokeChunks) : stream' = s
  /\ pc' = "loop"
  /\ UNCHANGED <<flow, result, error, pos, all_messages, tool_calls, reasoning,
                 postVars, researchVars, replyVars, diskVars, disk0, runVars>>

\* Lines 60-70: one turn of the for loop.
InvokeChunk ==
  /\ flow = "invoke" /\ pc = "loop" /\ pos < Len(stream)
  /\ LET chunk == stream[pos + 1]
         st == InvokeCollected([messages |-> all_messages,
                                tool_calls |-> tool_calls,
                                reasoning |-> reasoning], chunk)
     IN /\ pos' = pos + 1
        /\ all_messages' = st.messages
        /\ tool_calls' = st.tool_calls
        /\ reasoning' = st.reasoning
        /\ pc' = IF chunk.mt = "fault" THEN "except"
                 ELSE IF IsDone(chunk) THEN "after"
                 ELSE "loop"
  /\ UNCHANGED <<flow, result, error, stream, postVars, researchVars,
                 replyVars, diskVars, disk0, runVars>>

InvokeStreamEnd ==
  /\ flow = "invoke" /\ pc = "loop" /\ pos = Len(stream)
  /\ pc' = "after"
  /\ UNCHANGED <<flow, result, error, streamVars, postVars, researchVars,
                 replyVars, diskVars, disk0, runVars>>

\* Lines 72-78: the returned dictionary.
InvokeFinish ==
  /\ flow = "invoke" /\ pc = "after"
  /\ result' = Some([messages |-> all_messages, tool_calls |-> tool_calls,
                     reasoning |-> reasoning])
  /\ pc' = "returned"
  /\ UNCHANGED <<flow, error, streamVars, postVars, researchVars, replyVars,
                 diskVars, disk0, runVars>>

\* Lines 80-82: the except clause raises again.
InvokeExcept ==
  /\ flow = "invoke" /\ pc = "except"
  /\ Raise("Exception")
  /\ UNCHANGED <<flow, result, streamVars, postVars, researchVars, replyVars,
                 diskVars, disk0, runVars>>

InvokeNext ==
  InvokeInvoke \/ InvokeChunk \/ InvokeStreamEnd \/ InvokeFinish \/ InvokeExcept

(***************************************************************************)
(* The specification                                                       *)
(***************************************************************************)
\* The attempt logs a run may find on disk.
PriorPostLogs == { << >>, << LogEntry(TRUE, Some(<<"a">>), FALSE) >> }

PriorResearchLogs ==
  { << >>, << ResearchEntry(default_topics.active[1], FALSE, << >>, TRUE) >> }

\* The queue documents a research run may find on disk: two topics in any
\* priority, never researched or researched before or after the epoch; the
\* three topics A (high, never), B (high, researched) and C (low, never) in
\* any order; an empty queue.
TopicA(p, last) ==
  Topic(<<"a">>, <<"T", "o", "p", "i", "c", " ", "A">>, "", p, last)
TopicB(p, last) ==
  Topic(<<"b">>, <<"T", "o", "p", "i", "c", " ", "B">>, "about b", p, last)
TopicC(p, last) ==
  Topic(<<"c">>, <<"T", "o", "p", "i", "c", " ", "C">>, "", p, last)

Priorities == {"high", "medium", "low"}
Stamps == {None, Old, Earlier}

Permutations3(a, b, c) ==
  { <<a, b, c>>, <<a, c, b>>, <<b, a, c>>, <<b, c, a>>, <<c, a, b>>,
    <<c, b, a>> }

PriorDocuments ==
  { Document(<<TopicA(p, s), TopicB(q, t)>>, << >>) :
      p \in Priorities, s \in Stamps, q \in Priorities, t \in Stamps }
  \cup
  { Document(active, << >>) :
      active \in
        Permutations3(TopicA("high", None), TopicB("high", Earlier),
                      TopicC("low", None))
        \cup Permutations3(TopicA("high", Later), TopicB("high", Earlier),
                           TopicC("high", Old)) }
  \cup { Document(<< >>, << >>),
         Document(<<TopicA("high", None), TopicB("high", Earlier)>>,
                  <<TopicC("low", Later)>>) }

\* The titles add-topic is given: one whose id is the id of a default topic,
\* one with a tab, one longer than the limit of the id, the spec's example.
LongTitle == [i \in 1..(IdLimit + 2) |-> IF i = IdLimit THEN " " ELSE "X"]

AddTitles ==
  { <<"A", "S", "I", " ", "A", "l", "i", "g", "n", "m", "e", "n", "t">>,
    <<"a", "\t", "B">>,
    LongTitle,
    <<"Q", "u", "a", "n", "t", "u", "m", " ", "C", "o", "m", "p", "u", "t",
      "i", "n", "g", " ", "A", "p", "p", "l", "i", "c", "a", "t", "i", "o",
      "n", "s", "!">> }

AddArgs ==
  [title : AddTitles, description : {"", "about b"}, priority : Priorities]

\* The topic the second process adds.
RaceArgs ==
  { a \in AddArgs :
      a.title = <<"a", "\t", "B">> /\ a.description = "" /\ a.priority = "high" }

\* The commands of autonomous_research.py.
QueueCommands == {"research", "add", "list"}

InitLocals ==
  /\ pc = "start"
  /\ stream = << >> /\ pos = 0 /\ all_messages = << >>
  /\ tool_calls = << >> /\ reasoning = << >>
  /\ posted = FALSE /\ post_content = None
  /\ result = None /\ error = ""
  /\ topics = None /\ sel = 0
  /\ counts = [search_count |-> 0, archival_count |-> 0, blog_created |-> FALSE]
  /\ netCalls = << >> /\ post_data = None /\ reply_text = << >>
  /\ created = << >>
  /\ disk0 = [postLog |-> postLog, researchLog |-> researchLog,
              topicsFile |-> topicsFile]
  /\ runs = 1 /\ seeds = 0 /\ cycles = << >>

\* python autonomous_poster.py [--dry-run]
InitPost ==
  /\ flow = "post"
  /\ dry_run \in BOOLEAN
  /\ postLog \in PriorPostLogs
  /\ researchLog = << >> /\ topicsFile = None
  /\ url = << >> /\ args = NoArgs
  /\ adder = NoAdder
  /\ InitLocals

\* python reply_to_post.py <post_url>
InitReply ==
  /\ flow = "reply"
  /\ url \in Urls
  /\ dry_run = FALSE
  /\ postLog \in PriorPostLogs
  /\ researchLog = << >> /\ topicsFile = None
  /\ args = NoArgs
  /\ adder = NoAdder
  /\ InitLocals

\* python autonomous_research.py research: on a deployment whose log is
\* empty, or after a first cycle that seeded the queue and failed.
InitResearch ==
  /\ flow = "research"
  /\ \/ /\ topicsFile \in
             {None} \cup { Some(json_dump(d)) : d \in PriorDocuments }
        /\ researchLog = << >>
     \/ /\ topicsFile = Some(json_dump(default_topics))
        /\ researchLog \in PriorResearchLogs
  /\ postLog = << >>
  /\ dry_run = FALSE /\ url = << >> /\ args = NoArgs
  /\ adder = NoAdder
  /\ InitLocals

\* python autonomous_research.py add-topic <title> [--description] [--priority]
InitAdd ==
  /\ flow = "add"
  /\ args \in AddArgs
  /\ topicsFile \in {None} \cup { Some(json_dump(d)) : d \in PriorDocuments }
  /\ researchLog = << >> /\ postLog = << >>
  /\ dry_run = FALSE /\ url = << >>
  /\ adder = NoAdder
  /\ InitLocals

\* python autonomous_research.py list
InitList ==
  /\ flow = "list"
  /\ args = NoArgs
  /\ topicsFile \in {None} \cup { Some(json_dump(d)) : d \in PriorDocuments }
  /\ researchLog = << >> /\ postLog = << >>
  /\ dry_run = FALSE /\ url = << >>
  /\ adder = NoAdder
  /\ InitLocals

\* python invoke_gauge.py <prompt>
InitInvoke ==
  /\ flow = "invoke"
  /\ postLog = << >> /\ researchLog = << >> /\ topicsFile = None
  /\ dry_run = FALSE /\ url = << >> /\ args = NoArgs
  /\ adder = NoAdder
  /\ InitLocals

\* A research cycle and, in a second process, add-topic on the queue file of
\* a fresh deployment (whichever loads first seeds it).
InitRace ==
  /\ flow = "research"
  /\ topicsFile = None
  /\ researchLog = << >> /\ postLog = << >>
  /\ dry_run = FALSE /\ url = << >> /\ args = NoArgs
  /\ \E a \in RaceArgs : adder = [NoAdder EXCEPT !.pc = "start", !.args = a]
  /\ InitLocals

\* The first of a series of research cycles: on a fresh deployment, or on a
\* queue of three high-priority topics researched at different times.
InitCycles ==
  /\ flow = "research"
  /\ topicsFile \in
       { None,
         Some(json_dump(Document(<<TopicA("high", Later), TopicB("high", Earlier),
                                   TopicC("high", Old)>>, << >>))) }
  /\ researchLog = << >> /\ postLog = << >>
  /\ dry_run = FALSE /\ url = << >> /\ args = NoArgs
  /\ adder = NoAdder
  /\ InitLocals

\* The first command on a fresh deployment: no queue file, no log.
InitFresh ==
  /\ flow \in QueueCommands
  /\ args \in (IF flow = "add" THEN AddArgs ELSE {NoArgs})
  /\ topicsFile = None /\ researchLog = << >> /\ postLog = << >>
  /\ dry_run = FALSE /\ url = << >>
  /\ adder = NoAdder
  /\ InitLocals

\* main, lines 305-345: a new process starts the given command on the files
\* the last one left.
StartCommand(command, a) ==
  /\ pc \in {"returned", "raised"}
  /\ flow' = command
  /\ args' = a
  /\ runs' = runs + 1
  /\ pc' = "start"
  /\ stream' = << >> /\ pos' = 0 /\ all_messages' = << >>
  /\ tool_calls' = << >> /\ reasoning' = << >>
  /\ result' = None /\ error' = ""
  /\ topics' = None /\ sel' = 0
  /\ counts' = [search_count |-> 0, archival_count |-> 0, blog_created |-> FALSE]
  /\ disk0' = [postLog |-> postLog, researchLog |-> researchLog,
               topicsFile |-> topicsFile]
  /\ UNCHANGED <<postVars, replyVars, diskVars, seeds, adder, cycles>>

\* The process has ended and the next command is run.
NextCommand ==
  /\ flow \in QueueCommands
  /\ runs < MaxRuns
  /\ \E command \in QueueCommands :
       \E a \in (IF command = "add" THEN AddArgs ELSE {NoArgs}) :
         StartCommand(command, a)

\* The scheduler runs the research command again.
NextCycle ==
  /\ flow = "research"
  /\ runs < MaxCycles
  /\ StartCommand("research", NoArgs)

Init ==
  InitPost \/ InitReply \/ InitResearch \/ InitAdd \/ InitList \/ InitInvoke

Next ==
  PostNext \/ ReplyNext \/ ResearchNext \/ AddNext \/ ListNext \/ InvokeNext

QueueNext == ResearchNext \/ AddNext \/ ListNext \/ NextCommand

\* One run of any of the three scripts.
Spec == Init /\ [][Next]_vars

\* One run of each script alone.
SpecPost == InitPost /\ [][PostNext]_vars
SpecReply == InitReply /\ [][ReplyNext]_vars
SpecResearch == InitResearch /\ [][ResearchNext]_vars
SpecAdd == InitAdd /\ [][AddNext]_vars
SpecInvoke == InitInvoke /\ [][InvokeNext]_vars

\* Research cycles one after the other.
SpecCycles == InitCycles /\ [][ResearchNext \/ NextCycle]_vars

\* A research cycle with add-topic running beside it, their steps interleaved.
SpecRace == InitRace /\ [][ResearchNext \/ AdderNext]_vars

\* The commands of autonomous_research.py, one after the other, on a fresh
\* deployment.
SpecQueue == InitFresh /\ [][QueueNext]_vars

(***************************************************************************)
(* Claims about the stream aggregation of the post flow                    *)
(***************************************************************************)
\* What the for loop has taken from the stream so far.
Consumed == SubSeq(stream, 1, pos)

NamesPublishTool(c) ==
  c.mt = "tool_call_message" /\ c.name = "create_new_bluesky_post"

PublishCallsSeen == SelectSeq(Consumed, NamesPublishTool)

AssistantTextsSeen ==
  LET IsText(c) == c.mt = "assistant_message"
      seen == SelectSeq(Consumed, IsText)
  IN [i \in 1..Len(seen) |-> seen[i].content]

PostOver == flow = "post" /\ pc \in {"returned", "raised"}

\* The stream was consumed to its end or to the sentinel without a fault.
NoFaultSeen == \A i \in 1..pos : stream[i].mt # "fault"

\* C1: when the run is over and the stream, consumed without a transport
\* fault, held a publish tool call, there is an outcome, it has
\* published = TRUE, and its content is the first text of the 'text' argument
\* of the (last) publish call that carries one.
C1_PublishedContent ==
  (PostOver /\ NoFaultSeen /\ PublishCallsSeen # << >>) =>
    LET call == PublishCallsSeen[Len(PublishCallsSeen)]
    IN /\ result # None
       /\ result[1].posted
       /\ (call.text # None /\ call.text[1] # << >>) =>
            result[1].content = call.text[1][1]

\* C2: published is true only if a publish tool call was seen, success is
\* published or dry_run, and a stream without a publish call under
\* dry_run = FALSE gives published = FALSE and success = FALSE.
C2_SuccessIffPublishedOrDry ==
  (flow = "post" /\ result # None) =>
    /\ result[1].posted => PublishCallsSeen # << >>
    /\ result[1].success = (result[1].posted \/ dry_run)
    /\ (PublishCallsSeen = << >> /\ ~dry_run) =>
         (~result[1].posted /\ ~result[1].success)

C2_Witness ==
  /\ flow = "post" /\ pc = "returned" /\ ~dry_run
  /\ PublishCallsSeen = << >>
  /\ Len(AssistantTextsSeen) > 0
  /\ ~result[1].success

\* Each text trimmed, joined with one space between neighbours.
RECURSIVE JoinTrimmed(_)
JoinTrimmed(ts) ==
  IF ts = << >> THEN << >>
  ELSE IF Len(ts) = 1 THEN Strip(ts[1])
  ELSE Strip(ts[1]) \o <<" ">> \o JoinTrimmed(Tail(ts))

\* Each text followed by one space.
RECURSIVE EachThenSpace(_)
EachThenSpace(ts) ==
  IF ts = << >> THEN << >> ELSE ts[1] \o <<" ">> \o EachThenSpace(Tail(ts))

NoPublishDryRunReturned ==
  flow = "post" /\ pc = "returned" /\ dry_run /\ PublishCallsSeen = << >>

\* C3 as stated: without a publish call and with dry_run, success is TRUE and
\* content is the assistant texts, each trimmed, joined with one separator.
C3_ContentJoinTrimmed ==
  NoPublishDryRunReturned =>
    /\ result[1].success
    /\ result[1].content = JoinTrimmed(AssistantTextsSeen)

\* C3 as amended: without a publish call and with dry_run, success is TRUE
\* and content is the assistant texts in arrival order, each followed by one
\* space, the whole trimmed at its two ends only.
C3_ContentConcatThenStrip ==
  NoPublishDryRunReturned =>
    /\ result[1].success
    /\ result[1].content = Strip(EachThenSpace(AssistantTextsSeen))

C3_Witness ==
  /\ NoPublishDryRunReturned
  /\ Len(AssistantTextsSeen) = 2
  /\ AssistantTextsSeen[2] = <<" ", "b">>
  /\ result[1].content = <<"a", " ", " ", "b">>

(***************************************************************************)
(* Claims about the selection of the next research topic                   *)
(***************************************************************************)
\* The topic is picked and its last_researched is not yet rewritten: topics
\* is still the queue snapshot that was loaded.
Picked == flow = "research" /\ pc \in {"invoke", "loop", "after", "except"}

Snapshot == topics[1].active

\* The order of the claim: high before medium before low, then
\* last_researched ascending, a missing timestamp before every timestamp.
ClaimedRank(p) == CASE p = "high" -> 0 [] p = "medium" -> 1 [] p = "low" -> 2

ClaimedBefore(t, u) ==
  \/ ClaimedRank(t.priority) < ClaimedRank(u.priority)
  \/ /\ t.priority = u.priority
     /\ \/ t.last_researched = None /\ u.last_researched # None
        \/ /\ t.last_researched # None /\ u.last_researched # None
           /\ StrLess(t.last_researched, u.last_researched)

IsExampleQueue(active) ==
  { active[i] : i \in 1..Len(active) } =
    { TopicA("high", None), TopicB("high", Earlier), TopicC("low", None) }

Ops == [i \in 1..Len(netCalls) |-> netCalls[i].op]

\* The network calls of the steps, in the order of the steps: the login,
\* then Resolve, Fetch (the record, the profile), Generate, Publish.
StepCalls ==
  <<"login", "resolve_handle", "get_record", "get_profile", "messages.create",
    "create_record">>

CreateCalls == Cardinality({ i \in 1..Len(netCalls) : netCalls[i].op = "create_record" })

ReplySucceeded == flow = "reply" /\ pc = "returned"
ReplyFailed == flow = "reply" /\ pc = "raised"

InStepOrder == Len(Ops) <= Len(StepCalls) /\ Ops = SubSeq(StepCalls, 1, Len(Ops))

\* C6 as stated: the calls of the steps are issued in the order of the steps,
\* none twice; create_record is issued exactly once on a run that succeeds
\* and not at all on a run that fails at any step.
C6_OneCreateOnSuccessNoneOnFailure ==
  flow = "reply" =>
    /\ InStepOrder
    /\ ReplySucceeded => CreateCalls = 1
    /\ ReplyFailed => CreateCalls = 0

\* C6 as amended: the calls of the steps are issued in the order of the
\* steps, none twice; create_record is issued exactly once on a run that
\* succeeds and on a run that fails in Publish (the call itself fails), and
\* not at all on a run that fails in an earlier step.
C6_OneCreateUnlessFailedBeforePublish ==
  flow = "reply" =>
    /\ InStepOrder
    /\ ReplySucceeded => CreateCalls = 1 /\ Len(created) = 1
    /\ ReplyFailed =>
         LET last == netCalls[Len(netCalls)]
             inPublish == last.op = "create_record"
         IN /\ CreateCalls = (IF inPublish THEN 1 ELSE 0)
            /\ Len(created) = CreateCalls
            /\ inPublish => last.resp = None

C6_Witness ==
  /\ ReplySucceeded /\ Ops = StepCalls /\ CreateCalls = 1
  /\ pos = MaxStream

\* What the assistant chunks of a stream say in their content, end to end.
RECURSIVE SaidInContent(_)
SaidInContent(chunks) ==
  IF chunks = << >> THEN << >>
  ELSE (IF Head(chunks).mt = "assistant_message" /\ Head(chunks).attr = "content"
          THEN Head(chunks).content ELSE << >>)
       \o SaidInContent(Tail(chunks))

\* The agent has answered: the stream was read to its end without a fault.
Answered ==
  /\ flow = "reply" /\ pc \in {"publish", "returned", "raised"}
  /\ Len(Ops) >= 5
  /\ \A i \in 1..Len(stream) : stream[i].mt # "fault"

\* C7: when the agent's reply is empty after trimming, the flow fails with
\* the empty-generation error, nothing is put in the reply's place and no
\* create_record call is issued.
C7_EmptyReplyNotPublished ==
  (Answered /\ Strip(SaidInContent(stream)) = << >>) =>
    /\ pc = "raised"
    /\ error = "ValueError: Agent did not generate reply"
    /\ reply_text = << >>
    /\ created = << >> /\ CreateCalls = 0
    /\ result = None

C7_Witness ==
  /\ Answered
  /\ \E i \in 1..Len(stream) :
       stream[i].mt = "assistant_message" /\ stream[i].content = <<" ">>
  /\ Strip(SaidInContent(stream)) = << >>
  /\ pc = "raised"

\* The post the flow fetched: the get_record call and the cid it returned.
FetchCalls == SelectSeq(netCalls, LAMBDA c : c.op = "get_record" /\ c.resp # None)

\* C8: every record submitted has root and parent equal to the {uri, cid} of
\* the post that was fetched, which is the post the URL names.
C8_RootIsParentIsTarget ==
  \A i \in 1..Len(created) :
    /\ Len(FetchCalls) = 1
    /\ LET fetch == FetchCalls[1]
           target == Ref(fetch.req, fetch.resp[1])
       IN /\ created[i].root = target
          /\ created[i].parent = target
          /\ fetch.req[2] = "app.bsky.feed.post"
          /\ fetch.req[3] = url[7]

C8_Witness ==
  /\ ReplySucceeded
  /\ Len(created) = 1
  /\ created[1].parent.cid = "cid2"
  /\ created[1].root.uri = <<"did:plc:alice", "app.bsky.feed.post", "xyz123">>

\* The URL has the fixed shape: the four leading segments, a handle, "post",
\* a record key, and nothing more.
HasFixedShape(u) ==
  /\ Len(u) = 7
  /\ <<u[1], u[2], u[3], u[4]>> = <<"https:", "", "bsky.app", "profile">>
  /\ u[5] # "" /\ u[6] = "post" /\ u[7] # ""

\* The URL begins with the fixed shape.
BeginsWithFixedShape(u) == Len(u) >= 7 /\ HasFixedShape(SubSeq(u, 1, 7))

ResolveCalls == SelectSeq(netCalls, LAMBDA c : c.op = "resolve_handle")
FetchRequests == SelectSeq(netCalls, LAMBDA c : c.op = "get_record")

ExtractsHandleAndKey ==
  /\ \A i \in 1..Len(ResolveCalls) : ResolveCalls[i].req = <<url[5]>>
  /\ \A i \in 1..Len(FetchRequests) : FetchRequests[i].req[3] = url[7]
  /\ (url = GoodUrl /\ ResolveCalls # << >>) =>
       ResolveCalls[1].req = <<"alice.example">>
  /\ (url = GoodUrl /\ FetchRequests # << >>) =>
       FetchRequests[1].req[3] = "xyz123"

\* C9 as stated: Resolve extracts the handle and the record key of a URL of
\* the fixed shape, and a run on a URL that does not have that shape makes no
\* network call at all and fails with the invalid-URL error.
C9_BadUrlFailsBeforeAnyCall ==
  flow = "reply" =>
    /\ ExtractsHandleAndKey
    /\ ~HasFixedShape(url) =>
         /\ netCalls = << >>
         /\ pc \in {"returned", "raised"} =>
              (pc = "raised" /\ error = "ValueError: Invalid Bluesky post URL")

\* C9 as amended: Resolve extracts the handle and the record key of a URL
\* that begins with the fixed shape (what follows the record key is ignored),
\* and a run on a URL that does not begin with it makes no network call but
\* the login that precedes the parse, submits nothing, and, if the login
\* succeeded, fails with the invalid-URL error.
C9_BadUrlFailsAfterLoginOnly ==
  flow = "reply" =>
    /\ ExtractsHandleAndKey
    /\ ~BeginsWithFixedShape(url) =>
         /\ Len(netCalls) <= 1
         /\ \A i \in 1..Len(netCalls) : netCalls[i].op = "login"
         /\ created = << >>
         /\ pc # "returned"
         /\ (pc = "raised" /\ netCalls[1].resp # None) =>
              error = "ValueError: Invalid Bluesky post URL"

C9_Witness ==
  /\ flow = "reply" /\ pc = "raised"
  /\ url[1] = "http:"
  /\ Ops = <<"login">>
  /\ error = "ValueError: Invalid Bluesky post URL"

(***************************************************************************)
(* Claims about the attempt logs                                           *)
(***************************************************************************)
RunOver == pc \in {"returned", "raised"}

Grown(log, log0) == Len(log) = Len(log0) + 1 /\ SubSeq(log, 1, Len(log0)) = log0

EntriesAdded ==
  (Len(postLog) - Len(disk0.postLog)) + (Len(researchLog) - Len(disk0.researchLog))

EntriesKept ==
  /\ Len(postLog) >= Len(disk0.postLog)
  /\ SubSeq(postLog, 1, Len(disk0.postLog)) = disk0.postLog
  /\ Len(researchLog) >= Len(disk0.researchLog)
  /\ SubSeq(researchLog, 1, Len(disk0.researchLog)) = disk0.researchLog

FaultSeen == pos > 0 /\ stream[pos].mt = "fault"

\* The queue file as load_topics left it when the run began.
FileAfterLoad ==
  IF disk0.topicsFile = None THEN Some(json_dump(default_topics))
  ELSE disk0.topicsFile

\* C11: once a transport fault has been met in the stream, nothing more is
\* taken from the stream, no outcome is ever returned, the run ends by raising
\* the fault, and what was consumed before the fault leaves nothing behind
\* but one failure entry in the flow's attempt log (none in the reply flow):
\* no record is created and the queue file is as load_topics left it.
C11_FaultAbortsWithoutOutcome ==
  FaultSeen =>
    /\ pc \in {"except", "raised"}
    /\ result = None
    /\ \A i \in 1..(pos - 1) : stream[i].mt # "fault"
    /\ created = << >>
    /\ topicsFile = (IF flow = "research" THEN FileAfterLoad ELSE disk0.topicsFile)
    /\ pc = "except" =>
         postLog = disk0.postLog /\ researchLog = disk0.researchLog
    /\ pc = "raised" =>
         /\ error # ""
         /\ flow = "post" =>
              /\ Grown(postLog, disk0.postLog)
              /\ postLog[Len(postLog)] = LogEntry(FALSE, None, TRUE)
              /\ researchLog = disk0.researchLog
         /\ flow = "research" =>
              /\ Grown(researchLog, disk0.researchLog)
              /\ ~researchLog[Len(researchLog)].success
              /\ researchLog[Len(researchLog)].findings_length = 0
              /\ postLog = disk0.postLog
         /\ flow = "reply" =>
              postLog = disk0.postLog /\ researchLog = disk0.researchLog

\* A post run that consumed a publish call and an assistant text, then met
\* the fault, and has raised.
C11_Witness ==
  /\ flow = "post" /\ pc = "raised" /\ FaultSeen
  /\ pos = MaxStream
  /\ PublishCallsSeen # << >>
  /\ Len(AssistantTextsSeen) = 1
  /\ result = None

\* The research cycle has failed in conduct_research: the agent invocation
\* or its stream raised.
ResearchFailed ==
  flow = "research" /\ (pc = "except" \/ (pc = "raised" /\ error = "Exception"))

\* The queue a load of the given file returns.
QueueOf(file) ==
  IF file = None THEN default_topics ELSE json_load(file[1])[1]

\* C12: when a research cycle fails in the agent invocation or its stream, no
\* save is performed and no last_researched is changed: a queue file that
\* existed before the cycle is the very same text afterwards, a queue file
\* that did not exist holds the default topics that load_topics wrote when the
\* cycle began, and the queue read from the file is the queue the cycle
\* loaded.
C12_FailedCycleLeavesQueue ==
  ResearchFailed =>
    /\ disk0.topicsFile # None => topicsFile = disk0.topicsFile
    /\ disk0.topicsFile = None => topicsFile = Some(json_dump(default_topics))
    /\ QueueOf(topicsFile) = QueueOf(disk0.topicsFile)
    /\ \A i \in 1..Len(QueueOf(topicsFile).active) :
         QueueOf(topicsFile).active[i].last_researched =
           QueueOf(disk0.topicsFile).active[i].last_researched

\* A cycle on an existing queue that picked a never-researched topic, consumed
\* events and then failed.
C12_Witness ==
  /\ flow = "research" /\ pc = "raised" /\ error = "Exception"
  /\ disk0.topicsFile # None
  /\ pos = MaxStream
  /\ topics[1].active[sel].last_researched = None
  /\ Len(topics[1].active) = 3

(***************************************************************************)
(* Claims about the queue file                                             *)
(***************************************************************************)
\* C13: the queue file, whenever it exists, is a complete document (never an
\* empty or truncated text), and it is either the document the run found or
\* the complete new document the run wrote: the default topics of the seeding
\* write, or the queue that was saved.
C13_QueueFileAllOrNothing ==
  topicsFile # None =>
    /\ json_load(topicsFile[1]) # None
    /\ \/ topicsFile = disk0.topicsFile
       \/ disk0.topicsFile = None /\ topicsFile = Some(json_dump(default_topics))
       \/ topics # None /\ topicsFile = Some(json_dump(topics[1]))

DistinctIds(active) ==
  \A i, j \in 1..Len(active) : i # j => active[i].id # active[j].id

\* A step in which load_topics returns to the command that called it.
LoadReturns ==
  flow \in QueueCommands /\ pc = "start" /\ pc' \notin {"start", "raised"}

\* C14: the default topics have distinct ids and no last_researched; over any
\* sequence of commands on a fresh deployment the default file is written at
\* most once, and only in a step that finds no queue file; a load that
\* returns has written the default topics, and returns them with the file
\* holding them, exactly when it found no file, and has left the file as it
\* was when it found one.
C14_SeedsOnceOnlyWhenAbsent ==
  /\ [](/\ seeds <= 1
        /\ DistinctIds(default_topics.active)
        /\ \A i \in 1..Len(default_topics.active) :
             default_topics.active[i].last_researched = None)
  /\ [][/\ seeds' # seeds => (topicsFile = None /\ seeds' = seeds + 1)
        /\ LoadReturns =>
             /\ (topicsFile = None) <=> (seeds' = seeds + 1)
             /\ topicsFile = None =>
                  /\ topics' = Some(default_topics)
                  /\ json_load(topicsFile'[1]) = Some(default_topics)
             /\ topicsFile # None => topicsFile' = topicsFile]_vars

\* The second command on the deployment has loaded the queue that the first
\* one seeded and added to.
C14_Witness ==
  /\ runs = MaxRuns /\ seeds = 1
  /\ flow = "research" /\ pc = "select"
  /\ disk0.topicsFile # None
  /\ Len(topics[1].active) = Len(default_topics.active) + 1

(***************************************************************************)
(* Claims about add_topic                                                  *)
(***************************************************************************)
AddReturned == flow = "add" /\ pc = "returned"

\* C15: the topic that add returns has the id that is the title in lower
\* case with every whitespace character replaced by "-", cut to 50
\* characters, so that the id has at most 50 characters and no whitespace in
\* it, and it has no last_researched.
C15_IdIsSlugWithoutWhitespace ==
  AddReturned =>
    LET id == result[1].id
        title == args.title
    IN /\ Len(id) = (IF Len(title) < 50 THEN Len(title) ELSE 50)
       /\ \A i \in 1..Len(id) :
            /\ id[i] = (IF title[i] \in {" ", "\t", "\n"} THEN "-"
                        ELSE LowerChar(title[i]))
            /\ id[i] \notin {" ", "\t", "\n"}
       /\ result[1].last_researched = None

\* C16: when add has returned, the active list in the queue file is the active
\* list of the queue as it was before (the default topics when there was no
\* file) with the new topic, made of add's arguments, after its last topic;
\* the topics that were there and the completed list are as they were.
C16_AddAppendsAtEnd ==
  AddReturned =>
    LET before == QueueOf(disk0.topicsFile)
        after == QueueOf(topicsFile)
        n == Len(before.active)
    IN /\ Len(after.active) = n + 1
       /\ \A i \in 1..n : after.active[i] = before.active[i]
       /\ after.active[n + 1] = result[1]
       /\ after.active[n + 1].title = args.title
       /\ after.active[n + 1].description = args.description
       /\ after.active[n + 1].priority = args.priority
       /\ after.completed = before.completed

\* An add to a queue file that held two active topics and a completed one.
C16_Witness ==
  /\ AddReturned
  /\ disk0.topicsFile # None
  /\ Len(QueueOf(disk0.topicsFile).active) = 2
  /\ Len(QueueOf(disk0.topicsFile).completed) = 1
  /\ Len(QueueOf(topicsFile).active) = 3

\* The run has saved the queue it holds in topics.
Saved ==
  /\ pc = "returned"
  /\ flow = "add" \/ (flow = "research" /\ sel # 0)

\* C17: when a queue has been saved, a load of the queue file gives a queue
\* equal to the one that was saved: the same topics with the same fields
\* (a missing last_researched is still missing) in the same order, in active
\* and in completed.
C17_LoadAfterSaveIsIdentity ==
  Saved =>
    /\ json_load(topicsFile[1]) = topics
    /\ LET q == topics[1]
           r == json_load(topicsFile[1])[1]
       IN /\ Len(r.active) = Len(q.active)
          /\ \A i \in 1..Len(q.active) :
               /\ r.active[i].id = q.active[i].id
               /\ r.active[i].last_researched = q.active[i].last_researched
          /\ r.completed = q.completed

\* A saved queue with a never-researched topic, a researched one and a
\* completed one.
C17_Witness ==
  /\ Saved /\ flow = "add"
  /\ \E i \in 1..Len(topics[1].active) :
       topics[1].active[i].last_researched = None
  /\ \E i \in 1..Len(topics[1].active) :
       topics[1].active[i].last_researched = Earlier
  /\ Len(topics[1].completed) = 1
  /\ QueueOf(topicsFile).active[Len(topics[1].active)].last_researched = None

\* C18: on a deployment that began with the seeded queue and saw add and
\* research commands, no two topics of active have the same id, in the queue
\* file and in the queue a command holds.
C18_ActiveIdsDistinct ==
  /\ (topicsFile # None /\ json_load(topicsFile[1]) # None) =>
       DistinctIds(QueueOf(topicsFile).active)
  /\ topics # None => DistinctIds(topics[1].active)

(***************************************************************************)
(* Claims about the research cycle                                         *)
(***************************************************************************)
\* The cycle researched a topic and saved the queue.
ResearchSucceeded == flow = "research" /\ pc = "returned" /\ sel # 0

\* C19: after a successful research cycle the queue file differs from the
\* queue before the cycle (the default topics when there was no file) in one
\* thing only: the topic of active that was picked has the cycle's timestamp
\* as its last_researched.  Active has the same topics in the same order,
\* every other field and topic is as it was, and so is completed.
C19_CycleStampsOnlyTheChosenTopic ==
  ResearchSucceeded =>
    LET before == QueueOf(disk0.topicsFile)
        after == QueueOf(topicsFile)
    IN /\ Len(after.active) = Len(before.active)
       /\ \A i \in 1..Len(before.active) :
            i # sel => after.active[i] = before.active[i]
       /\ after.active[sel].last_researched \in Clock
       /\ after.active[sel] =
            [before.active[sel] EXCEPT
               !.last_researched = after.active[sel].last_researched]
       /\ after.active[sel].last_researched # before.active[sel].last_researched
       /\ after.completed = before.completed

\* A successful cycle on a queue of three topics that picked the second.
C19_Witness ==
  /\ ResearchSucceeded
  /\ disk0.topicsFile # None
  /\ Len(QueueOf(topicsFile).active) = 3
  /\ sel = 2
  /\ QueueOf(disk0.topicsFile).active[sel].last_researched = None
  /\ QueueOf(topicsFile).active[sel].last_researched \in Clock

(***************************************************************************)
(* Claims about the end of the stream                                      *)
(***************************************************************************)
\* The stream up to and with its first 'done' chunk, the whole stream when it
\* has none.
UpToSentinel(chunks) ==
  IF \E i \in 1..Len(chunks) : chunks[i].mt = "done"
    THEN SubSeq(chunks, 1,
                CHOOSE i \in 1..Len(chunks) :
                  /\ chunks[i].mt = "done"
                  /\ \A j \in 1..(i - 1) : chunks[j].mt # "done")
  ELSE chunks

ToolCallsIn(chunks) ==
  Len(SelectSeq(chunks, LAMBDA c : c.mt \in {"tool_call_message",
                                             "function_call_message"}))

\* C20: in every flow the for loop takes nothing from the stream after its
\* first 'done' chunk, and what the flow makes of the stream is made of the
\* chunks up to that chunk alone: the reply text of the reply flow, the
\* number of tool calls of the post and the research flow.
C20_NothingAfterSentinelCounts ==
  /\ pos <= Len(UpToSentinel(stream))
  /\ (flow = "reply" /\ pc \in {"publish", "returned"}) =>
       reply_text = Strip(SaidInContent(UpToSentinel(stream)))
  /\ (flow \in {"post", "research"} /\ result # None) =>
       result[1].tool_calls = ToolCallsIn(UpToSentinel(stream))

(***************************************************************************)
(* Claims about events of unknown kind and about the order of events       *)
(***************************************************************************)
\* The discriminants of the event kinds the agent is known to emit, with the
\* sentinel and the iterator's fault.
KnownKinds ==
  { "reasoning_message", "tool_call_message", "function_call_message",
    "assistant_message", "function_return", "done", "fault" }

\* The stream without its events of unknown kind and without those that
\* carry no discriminant.
WithoutUnknown(chunks) == SelectSeq(chunks, LAMBDA c : c.mt \in KnownKinds)

\* C21: events with an unknown discriminant, and events with none, are
\* ignored: what a run of the post flow or of invoke_agent returns (or that it
\* raises) is what the flow returns on the same stream with these events
\* removed, field by field.
C21_UnknownEventsIgnored ==
  /\ (flow = "post" /\ RunOver) =>
       result = generate_autonomous_post(WithoutUnknown(stream), dry_run)
  /\ (flow = "invoke" /\ RunOver) =>
       result = invoke_agent(WithoutUnknown(stream))

\* A post run has returned on a stream in which an event of unknown kind and
\* one with no discriminant surround an assistant text.
C21_Witness ==
  /\ flow = "post" /\ pc = "returned"
  /\ Len(stream) = 3
  /\ stream[1] = UnknownChunk /\ stream[3] = BareChunk
  /\ stream[2] \in AssistantChunks
  /\ result[1].content = <<"a">>

\* The sequences that hold the same elements as s, each as often, in any
\* order.
Reorderings(s) ==
  { q \in [1..Len(s) -> { s[i] : i \in 1..Len(s) }] :
      \E f \in [1..Len(s) -> 1..Len(s)] :
        /\ \A i, j \in 1..Len(s) : f[i] = f[j] => i = j
        /\ \A i \in 1..Len(s) : q[i] = s[f[i]] }

\* How many events precede the first sentinel (or the iterator's fault).
RECURSIVE BeforeSentinel(_)
BeforeSentinel(chunks) ==
  IF chunks = << >> \/ Head(chunks).mt \in {"done", "fault"} THEN 0
  ELSE 1 + BeforeSentinel(Tail(chunks))

\* The streams that deliver the events of this stream in another order, with
\* the sentinel where it is and the same events before it.
Reordered(chunks) ==
  LET n == BeforeSentinel(chunks)
  IN { q \o SubSeq(chunks, n + 1, Len(chunks)) :
         q \in Reorderings(SubSeq(chunks, 1, n)) }

\* What tool-call detection finds: published and the number of tool calls of
\* a post outcome; the number of tool calls and the per-name counts of a
\* research outcome (None when the run gave no outcome).
PostDetected(r) ==
  IF r = None THEN None ELSE Some(<<r[1].posted, r[1].tool_calls>>)

ResearchDetected(r) ==
  IF r = None THEN None
  ELSE Some(<<r[1].tool_calls, r[1].searches, r[1].archival_entries,
              r[1].blog_created>>)

\* C22: tool-call detection does not depend on the order of the events: a
\* run of the post flow or of conduct_research and the same flow on any
\* reordering of the events before the sentinel find the same published flag,
\* the same number of tool calls and the same per-name counts.
C22_DetectionIgnoresOrder ==
  /\ (flow = "post" /\ RunOver) =>
       \A s \in Reordered(stream) :
         PostDetected(generate_autonomous_post(s, dry_run)) =
           PostDetected(result)
  /\ (flow = "research" /\ (result # None \/ error = "Exception")) =>
       \A s \in Reordered(stream) :
         ResearchDetected(conduct_research(s)) = ResearchDetected(result)

(***************************************************************************)
(* Claims about the reply flow's candidate text                            *)
(***************************************************************************)
\* The reply flow has read its stream and trimmed what it collected.
CandidateReady ==
  /\ flow = "reply"
  /\ \/ pc \in {"publish", "returned"}
     \/ created # << >>
     \/ error = "ValueError: Agent did not generate reply"

\* C23: the reply flow's candidate text is the content of the post flow's
\* outcome for the same stream with no publish tool in play: the assistant
\* texts up to the sentinel, in arrival order, with the separator of the post
\* flow, trimmed; the two reducers agree on every stream.
C23_ReplyTextIsAggregatorContent ==
  CandidateReady =>
    LET outcome == generate_autonomous_post(stream, TRUE)
    IN outcome # None /\ reply_text = outcome[1].content

(***************************************************************************)
(* Claims about the log entry of a post run                                *)
(***************************************************************************)
\* C25: a run of the post flow whose stream ends without a transport fault
\* returns an outcome and appends one log entry whose success is (a publish
\* tool call was seen, or dry_run); a run in which the publish tool was
\* called is not logged or reported as a failure.
C25_TerminatedRunLogsPublishedOrDry ==
  (PostOver /\ NoFaultSeen) =>
    /\ result # None
    /\ Grown(postLog, disk0.postLog)
    /\ postLog[Len(postLog)].success = (PublishCallsSeen # << >> \/ dry_run)
    /\ result[1].success = (PublishCallsSeen # << >> \/ dry_run)

(***************************************************************************)
(* Claims about two processes on one queue file                            *)
(***************************************************************************)
\* Where the research cycle stands between its load and its save.
BetweenLoadAndSave == {"select", "invoke", "loop", "after", "save"}

\* The research cycle has saved and the add-topic beside it has returned.
BothReturned ==
  /\ flow = "research" /\ pc = "returned" /\ sel # 0
  /\ adder.pc = "returned"

\* The whole add ran between the load and the save of the cycle.
AddInsideCycle ==
  adder.loadedAt \in BetweenLoadAndSave /\ adder.savedAt \in BetweenLoadAndSave

\* The two ran one after the other: the add had saved before the cycle
\* loaded, or loaded after the cycle had saved.
Serialized == adder.savedAt = "start" \/ adder.loadedAt = "returned"

Holds(active, topic) == \E i \in 1..Len(active) : active[i] = topic

\* C24: when an add (load, append, save) runs between the load and the save
\* of a research cycle, the cycle's save overwrites the document and the
\* added topic is lost; when the two run one after the other, in either
\* order, the document holds the added topic and the researched topic with
\* its new last_researched.
C24_LostUpdateUnlessSerialized ==
  BothReturned =>
    LET doc == json_load(topicsFile[1])[1]
        added == new_topic(adder.args)
        researched == topics[1].active[sel]
    IN /\ AddInsideCycle =>
            /\ topicsFile = Some(json_dump(topics[1]))
            /\ ~Holds(doc.active, added)
            /\ Holds(doc.active, researched)
       /\ Serialized =>
            /\ Holds(doc.active, added)
            /\ Holds(doc.active, researched)
            /\ Len(doc.active) = Len(default_topics.active) + 1

\* The add ran inside the cycle, both have returned, and the file holds the
\* researched topic but not the added one.
C24_Witness ==
  /\ BothReturned /\ AddInsideCycle
  /\ ~Holds(json_load(topicsFile[1])[1].active, new_topic(adder.args))
  /\ Holds(json_load(topicsFile[1])[1].active, topics[1].active[sel])

(***************************************************************************)
(* Claims about successive research cycles                                 *)
(***************************************************************************)
\* The positions in active of the topics of the highest priority present.
TopClass(active) ==
  { i \in 1..Len(active) :
      \A j \in 1..Len(active) :
        ClaimedRank(active[i].priority) <= ClaimedRank(active[j].priority) }

\* The timestamp a saved cycle gave the topic it picked.
StampOf(c) == c.after[c.pick].last_researched

\* The cycle's timestamp is strictly later than every last_researched the
\* queue it loaded held.
LaterThanStored(c) ==
  \A j \in 1..Len(c.before) :
    c.before[j].last_researched # None =>
      StrLess(c.before[j].last_researched, StampOf(c))

\* The saved cycles i..j followed one another on the same queue (each loaded
\* what the one before saved), each with a timestamp later than all stored.
Successive(i, j) ==
  /\ \A m \in i..j : LaterThanStored(cycles[m])
  /\ \A m \in i..(j - 1) : cycles[m + 1].before = cycles[m].after

\* C26: across successive successful cycles with no adds between them and
\* timestamps strictly later than every stored last_researched, any k
\* consecutive cycles pick k different topics, where k is the number of
\* topics of the highest priority present.
C26_RoundRobinInTopClass ==
  \A i, j \in 1..Len(cycles) :
    (/\ i < j
     /\ j - i < Cardinality(TopClass(cycles[i].before))
     /\ Successive(i, j)) =>
      cycles[i].pick # cycles[j].pick

\* Three successive cycles on a queue of three high-priority topics have
\* picked each of them once.
C26_Witness ==
  /\ Len(cycles) = 3
  /\ Cardinality(TopClass(cycles[1].before)) = 3
  /\ Successive(1, 3)
  /\ { cycles[m].pick : m \in 1..3 } = 1..3

(***************************************************************************)
(* Claims about the queue over any sequence of commands                    *)
(***************************************************************************)
HasPriority(active, p) == \E j \in 1..Len(active) : active[j].priority = p

\* C27: a research cycle never picks a topic while active holds a topic of
\* strictly higher priority; as long as active holds a high-priority topic,
\* every topic picked, and every topic a saved cycle has researched, is of
\* high priority, over any sequence of cycles and adds.
C27_LowerPrioritiesStarve ==
  /\ Picked =>
       /\ \A j \in 1..Len(Snapshot) :
            ClaimedRank(Snapshot[sel].priority) <=
              ClaimedRank(Snapshot[j].priority)
       /\ HasPriority(Snapshot, "high") => Snapshot[sel].priority = "high"
  /\ \A m \in 1..Len(cycles) :
       HasPriority(cycles[m].before, "high") =>
         cycles[m].before[cycles[m].pick].priority = "high"

\* After a low-priority topic was added, a cycle has saved: it researched a
\* high-priority topic of a queue that holds medium and low ones.
C27_Witness ==
  /\ runs = 2 /\ Len(cycles) = 1
  /\ Len(cycles[1].before) = Len(default_topics.active) + 1
  /\ cycles[1].before[Len(cycles[1].before)].priority = "low"
  /\ cycles[1].before[cycles[1].pick].priority = "high"
  /\ HasPriority(cycles[1].before, "medium")

\* The document the queue file holds (None when there is no file or when it
\* does not parse).
Stored == IF topicsFile = None THEN None ELSE json_load(topicsFile[1])

Unstamped(t) == [t EXCEPT !.last_researched = None]

\* b is a with topics appended, whatever the timestamps.
GrownByAppends(a, b) ==
  /\ Len(a) <= Len(b)
  /\ \A i \in 1..Len(a) : Unstamped(a[i]) = Unstamped(b[i])

\* C28: from a fresh deployment, over any sequence of load, list, add and
\* research cycles, every document a command holds in memory, and every
\* document a step writes to the queue file, has an empty completed list and
\* the default topics, in their order, as a prefix of active; and no step
\* removes or reorders a topic of active, in memory or in the file: active
\* changes by appends (and timestamps) only.
C28_ActiveOnlyGrowsByAppends ==
  /\ [](topics # None =>
          /\ topics[1].completed = << >>
          /\ GrownByAppends(default_topics.active, topics[1].active))
  /\ [][/\ (topics # None /\ topics' # None) =>
             GrownByAppends(topics[1].active, topics'[1].active)
        /\ topicsFile' # topicsFile =>
             LET old == Stored
                 new == json_load(topicsFile'[1])
             IN new # None =>
                  /\ new[1].completed = << >>
                  /\ GrownByAppends(default_topics.active, new[1].active)
                  /\ old # None =>
                       GrownByAppends(old[1].active, new[1].active)]_vars

\* An add and then a research cycle have saved: the file holds the default
\* topics, the first of them researched, and the added topic after them.
C28_Witness ==
  /\ runs = 2 /\ flow = "research" /\ pc = "returned"
  /\ Stored # None
  /\ Len(Stored[1].active) = Len(default_topics.active) + 1
  /\ Stored[1].active[1].last_researched # None

====
